---- MODULE Spec2Model ----
(***************************************************************************)
(* Model of the incremental synchronisation engine of the Impilo-Neotree   *)
(* FHIR bridge: the two watermark-driven poll loops (patients,             *)
(* observations), the deferred observation queue and its sweep, the        *)
(* retrying HTTP client and the dead-letter sink.                          *)
(*                                                                         *)
(* A poll tick is an async callback started by setInterval with no         *)
(* re-entrancy guard, so ticks of one stream can overlap.  A tick is       *)
(* modelled in two steps: the fetch step (everything up to and including   *)
(* the source query) and the finish step (per-row processing and the       *)
(* watermark commit).  Timestamps are small integers; 0 is the absent      *)
(* watermark (SQL NULL / no row in the watermark table).                   *)
(***************************************************************************)
EXTENDS Integers, Sequences, FiniteSets, TLC

(* ------------------------------ bounds -------------------------------- *)
\* config.ops.pushBatchSize (LIMIT of the source queries)
BatchSize == 2
\* poll ticks of one stream that may be in progress at the same time
MaxInFlight == 2
\* units / resolver calls the mediator may fail before it recovers for good
MaxFaults == 1
\* last value of the clock
MaxTime == 2
\* cap on retry_count of a queue entry
MaxRetryCount == 1

(* ------------------------- program constants -------------------------- *)
\* INTERVAL 24 HOUR of markExpired; the clock counts units of 24 hours
TtlUnits == 1
\* maxRetries of pushObservationsWithRetry / pushPatientWithRetry
maxRetries == 3
\* retries of OpenHimClient.postJson / putResource (attempt < 3, attempt > 3)
clientRetries == 3

(* ------------------------------ data ---------------------------------- *)
Null == <<>>

Min(a, b) == IF a < b THEN a ELSE b

\* the two callers of processQueuedObservations: the poll tick and the sweep
Handlers == {"poll", "sweep"}

\* fnCall before any call
NoFnCall == [fn |-> "none"]

\* source-database patient ids
Patients == {"pA", "pB"}
\* patients that can appear in the master patient index; pB never does
Registrable == {"pA"}

\* id the SHR reports for a patient's projection, as it appears in responses
ShrRawId(p) == IF p = "pA" THEN <<"Patient/", "shr-A">> ELSE <<"shr-B">>

\* consultation.neonatal_question joined with neonatal_care
ObsRows ==
  { [id |-> 1, patient |-> "pA", date |-> 1],
    [id |-> 2, patient |-> "pB", date |-> 1],
    [id |-> 3, patient |-> "pA", date |-> 2],
    [id |-> 4, patient |-> "pA", date |-> 3] }

ObsIds == {r.id : r \in ObsRows}

ObsRowById(i) == CHOOSE r \in ObsRows : r.id = i

\* consultation.neonatal_care joined with demographics
PatRows ==
  { [id |-> 1, date |-> 1],
    [id |-> 2, date |-> 2],
    [id |-> 3, date |-> 3],
    [id |-> 4, date |-> 4],
    [id |-> 5, date |-> 4] }

PatIds == {r.id : r \in PatRows}

\* behaviour of the mediator towards every request made for one unit
FailModes == {"s5xx", "s4xx", "neterr"}

VARIABLES
  now,          \* clock (CURRENT_TIMESTAMP / NOW())
  faults,       \* failures the mediator may still produce
  mpi,          \* patients present in the master patient index
  shr,          \* patients with a projection in the SHR
  obsInvalid,   \* observation rows whose mapped resource fails validation
  patInvalid,   \* patient rows whose mapped resource fails validation
  obsWm,        \* watermark consultation.neonatal_question
  obsTicks,     \* fetched batches of the observation ticks in progress
  queue,        \* rows of _observation_queue
  obsAccepted,  \* observation rows whose PUT got a 2xx response
  obsDlq,       \* observation rows with a dead-letter file
  lastPuts,     \* PUT requests issued by the last step
  lastResolved, \* ids the resolver returned in the last step
  lastRun,      \* which handler the last step ran and what it decided
  patWm,        \* watermark consultation.neonatal_care
  patTicks,     \* fetched batches of the patient ticks in progress
  patAccepted,  \* patient rows whose POST got a 2xx response
  patDlq,       \* patient rows with a dead-letter file
  patFetched,   \* patient rows some poll has returned
  lastPosts,    \* POST calls of pushPatientWithRetry made by the last step
  resCall,      \* the last stand-alone call of verifyPatientExists and its result
  obsStore,     \* observation resources the SHR holds, by id
  alive,        \* the process is running and its timers are armed
  lastSent,     \* ids of the observations the last step sent, in the order sent
  fnCall,       \* the last stand-alone call of a mapping or selection function and its result
  hung,         \* the mediator accepts connections and never responds
  race,         \* concurrent verifyPatientExists calls for one patient and the SHR projections made
  held          \* ids each running replay has read from the queue and not yet settled

vars == << now, faults, mpi, shr, obsInvalid, patInvalid, obsWm, obsTicks, queue, obsAccepted,
           obsDlq, lastPuts, lastResolved, lastRun, patWm, patTicks, patAccepted,
           patDlq, patFetched, lastPosts, resCall, obsStore, alive, lastSent, fnCall, hung, race, held >>

obsVars == << obsWm, obsTicks, queue, obsAccepted, obsDlq, shr >>

patVars == << patWm, patTicks, patAccepted, patDlq, patFetched, lastPosts >>

\* lastRun before any handler has run
NoRun == [kind |-> "none", batch |-> <<>>, failed |-> 0, committed |-> FALSE]

\* lastRun after a step of the environment
EnvRun == [kind |-> "env", batch |-> <<>>, failed |-> 0, committed |-> FALSE]

(* --------------------------- source queries --------------------------- *)
\* a WHERE clause that also admits the watermark's own timestamp
RowsAfterInclusive(rows, wm) == {r \in rows : wm = 0 \/ r.date >= wm}

\* WHERE <ordering column> > :watermark, omitted when the watermark is absent
RowsAfter(rows, wm) == {r \in rows : wm = 0 \/ r.date > wm}

\* ORDER BY <ordering column>, <id column>
Before(a, b) == a.date < b.date \/ (a.date = b.date /\ a.id < b.id)

RECURSIVE SortRows(_)
SortRows(S) ==
  IF S = {} THEN <<>>
  ELSE LET m == CHOOSE x \in S : \A y \in S \ {x} : Before(x, y)
       IN  <<m>> \o SortRows(S \ {m})

IdsOf(rows) == [k \in 1..Len(rows) |-> rows[k].id]

\* LIMIT :batch_size
Take(s, n) == SubSeq(s, 1, Min(n, Len(s)))

fetchNeonatalQuestions(wm, batchSize) == Take(SortRows(RowsAfter(ObsRows, wm)), batchSize)

fetchNeonatalCareWithDemographics(wm, batchSize) ==
  Take(SortRows(RowsAfter(PatRows, wm)), batchSize)

(* ----------------------------- HTTP client ----------------------------- *)
\* status of the k-th request made for a unit; 0 is a transport error (no response)
Respond(mode, k) ==
  CASE mode = "ok" -> 200
    [] mode = "s5xx" -> 500
    [] mode = "s4xx" -> 400
    [] OTHER -> 0

Is2xx(status) == status >= 200 /\ status < 300

\* OpenHimClient.postJson / putResource: the while(true) loop.  attempt counts the
\* rejected tries so far, nreq the requests already made for the unit.
RECURSIVE ClientCall(_, _, _)
ClientCall(mode, attempt, nreq) ==
  LET status == Respond(mode, nreq + 1)
  IN  IF Is2xx(status)
      THEN [thrown |-> FALSE, status |-> status, nreq |-> nreq + 1]
      ELSE IF status # 0 /\ ~(attempt < clientRetries)
      THEN [thrown |-> FALSE, status |-> status, nreq |-> nreq + 1]
      ELSE IF attempt + 1 > clientRetries
      THEN [thrown |-> TRUE, status |-> status, nreq |-> nreq + 1]
      ELSE ClientCall(mode, attempt + 1, nreq + 1)

\* pushObservationsWithRetry, the attempt loop for one observation
RECURSIVE PushObservation(_, _, _)
PushObservation(mode, attempt, nreq) ==
  LET r == ClientCall(mode, 0, nreq)
  IN  IF ~r.thrown /\ Is2xx(r.status)
      THEN [pushed |-> TRUE, nreq |-> r.nreq]
      ELSE IF ~r.thrown /\ r.status >= 500 /\ attempt < maxRetries
      THEN PushObservation(mode, attempt + 1, r.nreq)
      ELSE IF ~r.thrown
      THEN [pushed |-> FALSE, nreq |-> r.nreq]
      ELSE IF attempt < maxRetries
      THEN PushObservation(mode, attempt + 1, r.nreq)
      ELSE [pushed |-> FALSE, nreq |-> r.nreq]

\* pushPatientWithRetry: returns whatever postResource resolves with, retries throws
RECURSIVE PushPatient(_, _, _)
PushPatient(mode, attempt, nreq) ==
  LET r == ClientCall(mode, 0, nreq)
  IN  IF ~r.thrown
      THEN [thrown |-> FALSE, status |-> r.status, nreq |-> r.nreq]
      ELSE IF attempt < maxRetries
      THEN PushPatient(mode, attempt + 1, r.nreq)
      ELSE [thrown |-> TRUE, status |-> 0, nreq |-> r.nreq]

Modes == FailModes \cup {"ok"}

\* the outcome of pushing one unit, per behaviour of the mediator
ObsPushOutcome == [m \in Modes |-> PushObservation(m, 1, 0)]

PatPushOutcome == [m \in Modes |-> PushPatient(m, 1, 0)]

(* --------------------------- fault selection -------------------------- *)
\* which resolver calls and which units the mediator fails during one handler run;
\* ins is the set of observations whose queue INSERT the database rejects
FaultChoices(budget) ==
  { f \in [res : SUBSET Patients, res2 : SUBSET Patients, put : SUBSET ObsIds,
           mode : FailModes, ins : {{}}] :
      /\ Cardinality(f.res) + Cardinality(f.res2) + Cardinality(f.put) <= budget
      /\ (f.put = {} => f.mode = "s5xx") }

FaultTable == [b \in 0..MaxFaults |-> FaultChoices(b)]

FaultCost(f) == Cardinality(f.res) + Cardinality(f.res2) + Cardinality(f.put)

ModeOf(f, i) == IF i \in f.put THEN f.mode ELSE "ok"

NetOf(failing, p) == IF p \in failing THEN "fail" ELSE "ok"

(* -------------------------- identity resolver ------------------------- *)
\* strip the "Patient/" prefix of an id read from a response
NormalizeId(raw) ==
  IF Len(raw) > 0 /\ Head(raw) = "Patient/" THEN Tail(raw) ELSE raw

\* what the mediator does with one request of the resolver: a 200 with a JSON
\* body, a non-2xx status with a body, a non-2xx status with an empty body, a
\* transport error, a 2xx whose body is not the expected JSON
ReqOutcomes == {"ok", "non200", "non200empty", "neterr", "malformed"}

\* OpenHimClient.get / postJson as the resolver sees it.  A response with a status
\* of 400 or more and an empty body makes the 'end' listener throw while it builds
\* the log preview (JSON.stringify(undefined).substring): the promise never
\* settles and the exception escapes the caller's try/catch.
HttpResult(outcome) ==
  IF outcome = "non200empty"
  THEN [kind |-> "crashed", status |-> 0, body |-> "none"]
  ELSE LET r == ClientCall(CASE outcome = "non200" -> "s5xx"
                             [] outcome = "neterr" -> "neterr"
                             [] OTHER -> "ok", 0, 0)
       IN  [kind |-> IF r.thrown THEN "thrown" ELSE "resolved",
            status |-> r.status,
            body |-> IF outcome = "malformed" THEN "text" ELSE "json"]

\* id of a second Patient resource the SHR creates for a patient it already holds
DuplicateRawId(p) == <<"Patient/", "dup-of", p>>

\* the outcome of each request of one call, by request
ResolverOutcomes ==
  [mpi : ReqOutcomes, search : ReqOutcomes, getp : ReqOutcomes, create : ReqOutcomes,
   research : ReqOutcomes]

AllOk ==
  [mpi |-> "ok", search |-> "ok", getp |-> "ok", create |-> "ok", research |-> "ok"]

\* verifyPatientExists, request by request: the MPI search (executeSearch), the
\* SHR search, the GET of the MPI's Patient, the SHR create, and the second SHR
\* search when the create response carries no id.  kind is "id", "null", or
\* "crashed" when a listener threw; reqs lists the requests made.
VerifyOutcome(p, o, mpiNow, shrNow) ==
  LET Ret(k, i, sh, cr, rq) ==
        [kind |-> k, id |-> i, shr |-> sh, created |-> cr, reqs |-> rq]
      q1 == <<"mpi">>
      q2 == <<"mpi", "search">>
      q3 == <<"mpi", "search", "getp">>
      q4 == <<"mpi", "search", "getp", "create">>
      q5 == <<"mpi", "search", "getp", "create", "research">>
      shr1 == shrNow \cup {p}
      newId == NormalizeId(IF p \in shrNow THEN DuplicateRawId(p) ELSE ShrRawId(p))
      Steps(r1, r2, r3, r4, r5) ==
        IF r1.kind = "crashed" THEN Ret("crashed", Null, shrNow, FALSE, q1)
        ELSE IF r1.kind = "thrown" \/ r1.status # 200 \/ r1.body # "json" \/ p \notin mpiNow
        THEN Ret("null", Null, shrNow, FALSE, q1)
        ELSE IF r2.kind = "crashed" THEN Ret("crashed", Null, shrNow, FALSE, q2)
        ELSE IF r2.kind = "thrown" THEN Ret("null", Null, shrNow, FALSE, q2)
        ELSE IF r2.status = 200 /\ r2.body = "json" /\ p \in shrNow
        THEN Ret("id", NormalizeId(ShrRawId(p)), shrNow, FALSE, q2)
        ELSE IF r3.kind = "crashed" THEN Ret("crashed", Null, shrNow, FALSE, q3)
        ELSE IF r3.kind = "thrown" \/ r3.status # 200
        THEN Ret("null", Null, shrNow, FALSE, q3)
        ELSE IF r4.kind = "crashed" THEN Ret("crashed", Null, shrNow, FALSE, q4)
        ELSE IF r4.kind = "thrown" \/ ~Is2xx(r4.status)
        THEN Ret("null", Null, shrNow, FALSE, q4)
        ELSE IF r4.body = "json" THEN Ret("id", newId, shr1, TRUE, q4)
        ELSE IF r5.kind = "crashed" THEN Ret("crashed", Null, shr1, TRUE, q5)
        ELSE IF r5.kind = "thrown" \/ r5.status # 200 \/ r5.body # "json"
        THEN Ret("null", Null, shr1, TRUE, q5)
        ELSE Ret("id", NormalizeId(ShrRawId(p)), shr1, TRUE, q5)
  IN  Steps(HttpResult(o.mpi), HttpResult(o.search), HttpResult(o.getp),
            HttpResult(o.create), HttpResult(o.research))

\* PatientVerificationService.verifyPatientExists as the pipelines call it: net =
\* "fail" is a transport failure of the MPI search, otherwise every request is
\* answered properly.  Null when the MPI search finds nothing or fails; else the
\* id of the SHR projection, created if absent.
VerifyPatientExists(p, net, mpiNow, shrNow) ==
  LET r == VerifyOutcome(p, IF net = "fail" THEN [AllOk EXCEPT !.mpi = "neterr"] ELSE AllOk,
                         mpiNow, shrNow)
  IN  [id |-> r.id, shr |-> r.shr]

(* --------------------------- deferred queue --------------------------- *)
\* last_retry_at = -1 is SQL NULL
NewEntry(i, p, t) ==
  [id |-> i, patient_id |-> p, created_at |-> t, retry_count |-> 0,
   last_retry_at |-> -1, status |-> "pending"]

\* a plain INSERT, without the duplicate-key clause
EnqueueOneInsertOnly(q, p, row, t) == q \cup {NewEntry(row.id, p, t)}

\* INSERT ... ON DUPLICATE KEY UPDATE retry_count = retry_count + 1,
\* last_retry_at = CURRENT_TIMESTAMP
EnqueueOne(q, p, row, t) ==
  IF \E e \in q : e.id = row.id
  THEN { IF e.id = row.id
         THEN [e EXCEPT !.retry_count = @ + 1, !.last_retry_at = t]
         ELSE e : e \in q }
  ELSE q \cup {NewEntry(row.id, p, t)}

\* an enqueue that stores the first observation of the group only
EnqueueHeadOnly(q, p, rows, t) ==
  IF rows = <<>> THEN q ELSE EnqueueOne(q, p, Head(rows), t)

RECURSIVE Enqueue(_, _, _, _)
Enqueue(q, p, rows, t) ==
  IF rows = <<>> THEN q
  ELSE Enqueue(EnqueueOne(q, p, Head(rows), t), p, Tail(rows), t)

\* the observations of a group whose INSERT succeeds: enqueue catches a rejected
\* INSERT per observation, logs it and goes on with the next one
Inserted(rows, failing) == SelectSeq(rows, LAMBDA r : r.id \notin failing)

GetQueuedObservations(q, p) == {e \in q : e.patient_id = p /\ e.status = "pending"}

Dequeue(q, i) == {e \in q : e.id # i}

MarkFailed(q, i) ==
  {IF e.id = i THEN [e EXCEPT !.status = "failed"] ELSE e : e \in q}

\* an expiry that already takes entries of exactly 24 hours
MarkExpiredAtTtl(q, t) ==
  { IF e.status = "pending" /\ e.created_at <= t - TtlUnits
    THEN [e EXCEPT !.status = "expired"]
    ELSE e : e \in q }

MarkExpired(q, t) ==
  { IF e.status = "pending" /\ e.created_at < t - TtlUnits
    THEN [e EXCEPT !.status = "expired"]
    ELSE e : e \in q }

\* a selection that only takes entries enqueued more than once
GetPendingPatientsRetried(q) ==
  {e.patient_id : e \in {x \in q : x.status = "pending" /\ x.retry_count > 0}}

\* getPendingPatientsWithIdentifiers: SELECT DISTINCT q.patient_id ... WHERE
\* q.status = 'pending' (every queued patient has a neonatal_care row)
GetPendingPatients(q) == {e.patient_id : e \in {x \in q : x.status = "pending"}}

(* ------------------------- observation mapping ------------------------ *)
\* ObservationMapper.map: throws (no resource) without a resolved patient id
ObservationMapperMap(row, patientResourceId) ==
  IF patientResourceId = Null
  THEN [ok |-> FALSE, id |-> Null, subject |-> Null]
  ELSE [ok |-> TRUE, id |-> <<"neonatal-question-", row.id>>,
        subject |-> <<"Patient/">> \o patientResourceId]

\* ObservationMapper.map of mapping/observation.ts, whose patientResourceId is
\* optional: subject.reference is Patient/${patientResourceId || row.patient_id}
ObservationMapperMapOptional(row, patientResourceId) ==
  [ok |-> TRUE, id |-> <<"neonatal-question-", row.id>>,
   subject |-> <<"Patient/">> \o (IF patientResourceId = Null
                                  THEN <<row.patient>>
                                  ELSE patientResourceId)]

\* obs.id.replace("neonatal-question-", "")
QuestionId(obsId) == IF Head(obsId) = "neonatal-question-" THEN obsId[2] ELSE obsId

\* rows whose mapping succeeds and whose sanitized resource validates
ValidIds(ids, patientResourceId, invalid) ==
  {i \in ids : ObservationMapperMap(ObsRowById(i), patientResourceId).ok /\ i \notin invalid}

(* ---------------------- observation orchestration --------------------- *)
\* the working state of one handler run
StartRun(q, dlq, acc, shrNow) ==
  [queue |-> q, dlq |-> dlq, accepted |-> acc, shr |-> shrNow, puts |-> {},
   resolved |-> {}, failed |-> 0, sent |-> <<>>]

NoteResolved(st, p, v) ==
  [st EXCEPT !.shr = v.shr,
             !.resolved = IF v.id = Null THEN @ ELSE @ \cup {[patient |-> p, id |-> v.id]}]

\* the observations of one call of pushObservationsWithRetry in the order of its
\* loop: the order of the rows in the batch (timestamp, id); for a replay the order
\* of getQueuedObservations (created_at), taken to be the same as the source order
InOrder(ids) == IdsOf(SortRows({ObsRowById(i) : i \in ids}))

\* a push whose requests go out ahead of the requests the run made before it
PushObservationsWithRetryAhead(st, ids, p, patientResourceId, f) ==
  LET pushed == {i \in ids : ObsPushOutcome[ModeOf(f, i)].pushed}
      reqs   == { [row |-> QuestionId(ObservationMapperMap(ObsRowById(i), patientResourceId).id),
                   patient |-> p,
                   subject |-> ObservationMapperMap(ObsRowById(i), patientResourceId).subject,
                   mode |-> ModeOf(f, i),
                   nreq |-> ObsPushOutcome[ModeOf(f, i)].nreq]
                  : i \in ids }
  IN  [st EXCEPT !.accepted = @ \cup pushed,
                 !.dlq = @ \cup (ids \ pushed),
                 !.puts = @ \cup reqs,
                 !.sent = InOrder(ids) \o @,
                 !.failed = @ + Cardinality(ids \ pushed)]

\* pushObservationsWithRetry over the observations mapped from ids: a PUT per
\* observation, a dead-letter file for each one not pushed
PushObservationsWithRetry(st, ids, p, patientResourceId, f) ==
  LET pushed == {i \in ids : ObsPushOutcome[ModeOf(f, i)].pushed}
      reqs   == { [row |-> QuestionId(ObservationMapperMap(ObsRowById(i), patientResourceId).id),
                   patient |-> p,
                   subject |-> ObservationMapperMap(ObsRowById(i), patientResourceId).subject,
                   mode |-> ModeOf(f, i),
                   nreq |-> ObsPushOutcome[ModeOf(f, i)].nreq]
                  : i \in ids }
  IN  [st EXCEPT !.accepted = @ \cup pushed,
                 !.dlq = @ \cup (ids \ pushed),
                 !.puts = @ \cup reqs,
                 !.sent = @ \o InOrder(ids),
                 !.failed = @ + Cardinality(ids \ pushed)]

RECURSIVE DequeueAll(_, _)
DequeueAll(q, ids) ==
  IF ids = {} THEN q
  ELSE LET i == CHOOSE x \in ids : TRUE IN DequeueAll(Dequeue(q, i), ids \ {i})

RECURSIVE MarkFailedAll(_, _)
MarkFailedAll(q, ids) ==
  IF ids = {} THEN q
  ELSE LET i == CHOOSE x \in ids : TRUE IN MarkFailedAll(MarkFailed(q, i), ids \ {i})

\* the entries processQueuedObservations removes after the push
ReplayDequeued(validIds, pushedIds) == validIds

\* processQueuedObservations(patientId, knownPatientResourceId?)
ProcessQueuedObservations(st, p, knownId, f, mpiNow, invalid) ==
  LET queued == {e.id : e \in GetQueuedObservations(st.queue, p)}
  IN  IF queued = {} THEN st
      ELSE
        LET v   == IF knownId # Null
                   THEN [id |-> knownId, shr |-> st.shr]
                   ELSE VerifyPatientExists(p, NetOf(f.res2, p), mpiNow, st.shr)
            st1 == IF knownId # Null THEN st ELSE NoteResolved(st, p, v)
        IN  IF v.id = Null THEN st1
            ELSE
              LET valid  == ValidIds(queued, v.id, invalid)
                  st2    == [st1 EXCEPT !.queue = MarkFailedAll(@, queued \ valid)]
                  st3    == IF valid = {} THEN st2
                            ELSE PushObservationsWithRetry(st2, valid, p, v.id, f)
                  pushed == {i \in valid : ObsPushOutcome[ModeOf(f, i)].pushed}
              IN  [st3 EXCEPT !.queue = DequeueAll(@, ReplayDequeued(valid, pushed)),
                              !.failed = st.failed]

\* groupByPatient: the patients of a batch in order of first appearance
RECURSIVE PatientOrder(_)
PatientOrder(rows) ==
  IF rows = <<>> THEN <<>>
  ELSE LET rest == PatientOrder(SubSeq(rows, 1, Len(rows) - 1))
           p    == rows[Len(rows)].patient
       IN  IF \E k \in 1..Len(rest) : rest[k] = p THEN rest ELSE Append(rest, p)

GroupRows(rows, p) == SelectSeq(rows, LAMBDA r : r.patient = p)

\* the source database's patient id used as the subject id
SubjectIdFromSource(p, patientResourceId) == <<p>>

\* the subject id pollAndProcess hands to the mapper for a resolved patient
SubjectIdFor(p, patientResourceId) == patientResourceId

\* a loop body that adds the rows it enqueues to totalFailed
ProcessPatientGroupCountingQueued(st, p, rows, f, mpiNow, invalid, t) ==
  LET v   == VerifyPatientExists(p, NetOf(f.res, p), mpiNow, st.shr)
      st0 == NoteResolved(st, p, v)
  IN  IF v.id = Null
      THEN [st0 EXCEPT !.queue = Enqueue(@, p, Inserted(rows, f.ins), t),
                       !.failed = @ + Len(rows)]
      ELSE
        LET st1   == ProcessQueuedObservations(st0, p, Null, f, mpiNow, invalid)
            ids   == {rows[k].id : k \in 1..Len(rows)}
            sid   == SubjectIdFor(p, v.id)
            valid == ValidIds(ids, sid, invalid)
            st2   == [st1 EXCEPT !.dlq = @ \cup (ids \ valid),
                                 !.failed = @ + Cardinality(ids \ valid)]
        IN  IF valid = {} THEN st2
            ELSE PushObservationsWithRetry(st2, valid, p, sid, f)

\* pollAndProcess, the body of the loop over byPatient.entries() for one patient
ProcessPatientGroup(st, p, rows, f, mpiNow, invalid, t) ==
  LET v   == VerifyPatientExists(p, NetOf(f.res, p), mpiNow, st.shr)
      st0 == NoteResolved(st, p, v)
  IN  IF v.id = Null
      THEN [st0 EXCEPT !.queue = Enqueue(@, p, Inserted(rows, f.ins), t)]
      ELSE
        LET st1   == ProcessQueuedObservations(st0, p, Null, f, mpiNow, invalid)
            ids   == {rows[k].id : k \in 1..Len(rows)}
            sid   == SubjectIdFor(p, v.id)
            valid == ValidIds(ids, sid, invalid)
            st2   == [st1 EXCEPT !.dlq = @ \cup (ids \ valid),
                                 !.failed = @ + Cardinality(ids \ valid)]
        IN  IF valid = {} THEN st2
            ELSE PushObservationsWithRetry(st2, valid, p, sid, f)

RECURSIVE ProcessGroups(_, _, _, _, _, _, _)
ProcessGroups(st, order, rows, f, mpiNow, invalid, t) ==
  IF order = <<>> THEN st
  ELSE ProcessGroups(
         ProcessPatientGroup(st, Head(order), GroupRows(rows, Head(order)), f,
                             mpiNow, invalid, t),
         Tail(order), rows, f, mpiNow, invalid, t)

\* a commit that ignores the failure count
ObsCommitAlways(wm, rows, totalFailed) == rows[Len(rows)].date

\* the watermark the observation tick leaves behind: setWatermark(lastRow.date)
\* only when totalFailed === 0
ObsCommit(wm, rows, totalFailed) ==
  IF totalFailed = 0 THEN rows[Len(rows)].date ELSE wm

RemoveAt(s, k) == SubSeq(s, 1, k - 1) \o SubSeq(s, k + 1, Len(s))

\* the parts of the resource ObservationMapper.map builds that a PUT made at time t
\* stores under the resource id: the subject and issued (new Date() at mapping)
MappedObservation(q, t) ==
  [id |-> <<"neonatal-question-", q.row>>, subject |-> q.subject, issued |-> t]

\* the SHR after the PUTs of a step: a PUT that got a 2xx replaces the resource
\* stored under its id
StoreAfter(store, puts, t) ==
  LET acc == {MappedObservation(q, t) : q \in {x \in puts : ObsPushOutcome[x.mode].pushed}}
  IN  {s \in store : ~\E a \in acc : a.id = s.id} \cup acc

(* --------------------------- hung mediator ---------------------------- *)
\* postJson, putResource and get settle their promise on the response's end
\* event or on the request's error event, and set no timeout on the request: a
\* handler that awaits a request to a mediator that never responds gets no
\* further
Responds(requested) == ~(requested /\ hung)

\* the mediator stops responding: it accepts connections and stays silent
MediatorHangs ==
  /\ ~hung
  /\ hung' = TRUE
  /\ lastRun' = [kind |-> "hang", batch |-> <<>>, failed |-> 0, committed |-> FALSE]
  /\ lastPuts' = {}
  /\ lastSent' = <<>>
  /\ lastResolved' = {}
  /\ lastPosts' = {}
  /\ UNCHANGED << now, faults, mpi, shr, obsInvalid, patInvalid, resCall, held, race, fnCall, alive,
                  obsStore, obsWm, obsTicks, queue, obsAccepted, obsDlq,
                  patWm, patTicks, patAccepted, patDlq, patFetched >>

\* pollAndProcess up to the source query: markExpired, getWatermark, fetch, with
\* config.ops.pushBatchSize = n
ObsPollFetchN(n) ==
  /\ alive
  /\ Len(obsTicks) < MaxInFlight
  /\ queue' = MarkExpired(queue, now)
  /\ LET rows == fetchNeonatalQuestions(obsWm, n)
     IN  /\ obsTicks' = IF rows = <<>> THEN obsTicks ELSE Append(obsTicks, rows)
         /\ lastRun' = [kind |-> "obsFetch", batch |-> IdsOf(rows), failed |-> 0,
                        committed |-> FALSE]
  /\ lastPuts' = {}
  /\ lastSent' = <<>>
  /\ lastResolved' = {}
  /\ UNCHANGED << now, faults, mpi, shr, obsInvalid, patInvalid, resCall, held, race, hung, fnCall, alive, obsStore, obsWm, obsAccepted, obsDlq,
                  patVars >>

ObsPollFetch == ObsPollFetchN(BatchSize)

\* the poll of a deployment whose batch holds one row more
ObsPollFetchLarge == ObsPollFetchN(BatchSize + 1)

\* pollAndProcess from the grouping of the fetched rows to the watermark commit,
\* with the failures of the run drawn from choices
ObsPollFinishWith(choices) ==
  /\ alive
  /\ Responds(TRUE)
  /\ \E k \in 1..Len(obsTicks) : \E f \in choices :
    LET rows == obsTicks[k] IN
    \E st \in {ProcessGroups(StartRun(queue, obsDlq, obsAccepted, shr),
                              PatientOrder(rows), rows, f, mpi, obsInvalid, now)} :
        /\ \A e \in st.queue : e.retry_count <= MaxRetryCount
        /\ obsTicks' = RemoveAt(obsTicks, k)
        /\ queue' = st.queue
        /\ obsDlq' = st.dlq
        /\ obsAccepted' = st.accepted
        /\ shr' = st.shr
        /\ lastPuts' = st.puts
        /\ lastSent' = st.sent
        /\ obsStore' = StoreAfter(obsStore, st.puts, now)
        /\ lastResolved' = st.resolved
        /\ obsWm' = ObsCommit(obsWm, rows, st.failed)
        /\ faults' = faults - FaultCost(f)
        /\ lastRun' = [kind |-> "obsFinish", batch |-> IdsOf(rows),
                       failed |-> st.failed, committed |-> (st.failed = 0)]
        /\ UNCHANGED << now, mpi, obsInvalid, patInvalid, resCall, held, race, hung, fnCall, alive, patVars >>

ObsPollFinish == ObsPollFinishWith(FaultTable[faults])

\* failures of a run in which the mediator is healthy and the database rejects
\* up to MaxFaults of the queue INSERTs
DbFaultChoices ==
  {[f EXCEPT !.ins = s] :
     f \in FaultTable[0], s \in {x \in SUBSET ObsIds : Cardinality(x) <= MaxFaults}}

\* the tick when queue INSERTs can fail
ObsPollFinishDb == ObsPollFinishWith(DbFaultChoices)

\* sweepQueue: for every patient with pending entries, resolve and replay
RECURSIVE SweepPatients(_, _, _, _, _)
SweepPatients(st, ps, f, mpiNow, invalid) ==
  IF ps = {} THEN st
  ELSE
    LET p   == CHOOSE x \in ps : TRUE
        v   == VerifyPatientExists(p, NetOf(f.res, p), mpiNow, st.shr)
        st0 == NoteResolved(st, p, v)
        st1 == IF v.id = Null THEN st0
               ELSE ProcessQueuedObservations(st0, p, v.id, f, mpiNow, invalid)
    IN  SweepPatients(st1, ps \ {p}, f, mpiNow, invalid)

SweepQueue ==
  /\ alive
  /\ Responds(GetPendingPatients(queue) # {})
  /\ \E f \in {x \in FaultTable[faults] : x.res2 = {}} :
    \E st \in {SweepPatients(StartRun(queue, obsDlq, obsAccepted, shr),
                            GetPendingPatients(queue), f, mpi, obsInvalid)} :
        /\ queue' = st.queue
        /\ obsDlq' = st.dlq
        /\ obsAccepted' = st.accepted
        /\ shr' = st.shr
        /\ lastPuts' = st.puts
        /\ lastSent' = st.sent
        /\ obsStore' = StoreAfter(obsStore, st.puts, now)
        /\ lastResolved' = st.resolved
        /\ faults' = faults - FaultCost(f)
        /\ lastRun' = [kind |-> "sweep", batch |-> <<>>, failed |-> st.failed,
                       committed |-> FALSE]
        /\ UNCHANGED << now, mpi, obsInvalid, patInvalid, resCall, held, race, hung, fnCall, alive, obsWm, obsTicks, patVars >>

(* ----------------------------- environment ---------------------------- *)
\* a patient is registered in the master patient index
MpiRegister ==
  \E p \in Registrable \ mpi :
    /\ mpi' = mpi \cup {p}
    /\ lastRun' = EnvRun
    /\ lastPuts' = {}
    /\ lastSent' = <<>>
    /\ lastResolved' = {}
    /\ UNCHANGED << now, faults, obsInvalid, patInvalid, resCall, held, race, hung, fnCall, alive, obsStore, obsVars, patVars >>

\* time passes
AdvanceClock ==
  /\ now < MaxTime
  /\ now' = now + 1
  /\ lastRun' = EnvRun
  /\ lastPuts' = {}
  /\ lastSent' = <<>>
  /\ lastResolved' = {}
  /\ UNCHANGED << faults, mpi, obsInvalid, patInvalid, resCall, held, race, hung, fnCall, alive, obsStore, obsVars, patVars >>

\* lastRun after a stand-alone resolver call
ResolveRun == [kind |-> "resolve", batch |-> <<>>, failed |-> 0, committed |-> FALSE]

\* resCall before any call
NoCall ==
  [patient |-> "none", outcomes |-> <<>>, existed |-> FALSE, result |-> "none",
   id |-> Null, created |-> FALSE]

\* one call of verifyPatientExists with the mediator answering its requests in
\* any of the ways of ReqOutcomes
ResolverCall ==
  /\ Responds(TRUE)
  /\ \E p \in Patients : \E o \in ResolverOutcomes :
    \E r \in {VerifyOutcome(p, o, mpi, shr)} :
      /\ resCall' = [patient |-> p,
                     outcomes |-> [k \in 1..Len(r.reqs) |-> <<r.reqs[k], o[r.reqs[k]]>>],
                     existed |-> (p \in shr), result |-> r.kind, id |-> r.id,
                     created |-> r.created]
      /\ shr' = r.shr
      /\ lastRun' = ResolveRun
      /\ lastPuts' = {}
      /\ lastSent' = <<>>
      /\ lastResolved' = {}
      /\ UNCHANGED << now, faults, mpi, obsInvalid, patInvalid, held, race, hung, fnCall, alive, obsStore, obsWm, obsTicks, queue,
                      obsAccepted, obsDlq, patVars >>

(* ------------------------ patient orchestration ----------------------- *)
PatFaultChoices(budget) ==
  { f \in [put : SUBSET PatIds, mode : FailModes] :
      /\ Cardinality(f.put) <= budget
      /\ (f.put = {} => f.mode = "s5xx") }

PatFaultTable == [b \in 0..MaxFaults |-> PatFaultChoices(b)]

\* the watermark the patient tick leaves behind: the early return when no row
\* validated, else setWatermark(lastRow.date_time_admission)
PatCommit(wm, rows, validated) ==
  IF validated = {} THEN wm ELSE rows[Len(rows)].date

\* rows of the batch a dead-letter file is written for: validation failures and
\* pushes that threw after the retries
PatDeadLettered(rows, f, invalid) ==
  LET ids       == {rows[k].id : k \in 1..Len(rows)}
      validated == ids \ invalid
  IN  (ids \ validated)
        \cup {i \in validated : PatPushOutcome[ModeOf(f, i)].thrown}

\* rows of the batch whose POST resolved with a 2xx status
PatPushed(rows, f, invalid) ==
  {rows[k].id : k \in {j \in 1..Len(rows) :
       /\ rows[j].id \notin invalid
       /\ ~PatPushOutcome[ModeOf(f, rows[j].id)].thrown
       /\ Is2xx(PatPushOutcome[ModeOf(f, rows[j].id)].status)}}

\* the calls of pushPatientWithRetry a tick makes: one per validated row, none
\* when no row validated
PatPosts(rows, f, invalid) ==
  LET validated == {rows[k].id : k \in 1..Len(rows)} \ invalid
  IN  { [row |-> i, mode |-> ModeOf(f, i),
         nreq |-> PatPushOutcome[ModeOf(f, i)].nreq,
         thrown |-> PatPushOutcome[ModeOf(f, i)].thrown,
         status |-> PatPushOutcome[ModeOf(f, i)].status] : i \in validated }

\* pollAndProcess up to the source query: getWatermark, fetch
PatPollFetch ==
  /\ alive
  /\ Len(patTicks) < MaxInFlight
  /\ LET rows == fetchNeonatalCareWithDemographics(patWm, BatchSize)
     IN  /\ patTicks' = IF rows = <<>> THEN patTicks ELSE Append(patTicks, rows)
         /\ patFetched' = patFetched \cup {rows[k].id : k \in 1..Len(rows)}
         /\ lastRun' = [kind |-> "patFetch", batch |-> IdsOf(rows), failed |-> 0,
                        committed |-> FALSE]
  /\ lastPuts' = {}
  /\ lastSent' = <<>>
  /\ lastResolved' = {}
  /\ lastPosts' = {}
  /\ UNCHANGED << now, faults, mpi, obsInvalid, patInvalid, resCall, held, race, hung, fnCall, alive, obsStore, obsVars, patWm, patAccepted, patDlq >>

\* pollAndProcess from the mapping of the fetched rows to the watermark commit,
\* with the mediator's failures drawn from modes
PatPollFinishWith(modes) ==
  /\ alive
  /\ \E k \in 1..Len(patTicks) : \E f \in {x \in PatFaultTable[faults] : x.mode \in modes} :
    LET rows      == patTicks[k]
        validated == {rows[j].id : j \in 1..Len(rows)} \ patInvalid
    IN  /\ Responds(validated # {})
        /\ patTicks' = RemoveAt(patTicks, k)
        /\ patDlq' = patDlq \cup
             (IF validated = {}
              THEN {rows[j].id : j \in 1..Len(rows)}
              ELSE PatDeadLettered(rows, f, patInvalid))
        /\ patAccepted' = patAccepted \cup PatPushed(rows, f, patInvalid)
        /\ patWm' = PatCommit(patWm, rows, validated)
        /\ faults' = faults - (IF validated = {} THEN 0 ELSE Cardinality(f.put))
        /\ lastRun' = [kind |-> "patFinish", batch |-> IdsOf(rows),
                       failed |-> Cardinality(validated \ PatPushed(rows, f, patInvalid)),
                       committed |-> (validated # {})]
        /\ lastPuts' = {}
        /\ lastSent' = <<>>
        /\ lastResolved' = {}
        /\ lastPosts' = PatPosts(rows, f, patInvalid)
        /\ UNCHANGED << now, mpi, obsInvalid, patInvalid, resCall, held, race, hung, fnCall, alive, obsStore, obsVars, patFetched >>

PatPollFinish == PatPollFinishWith(FailModes)

\* writeDlq: mkdir and writeFile inside a try block whose catch logs the error
\* and returns; written is whether the file system accepts the file
WriteDlq(dlq, ids, written) == IF written THEN dlq \cup ids ELSE dlq

\* the tick of PatPollFinish while the dead-letter directory cannot be written
\* (full or read-only disk): every writeDlq of the tick logs and returns
PatPollFinishDiskFull ==
  /\ alive
  /\ \E k \in 1..Len(patTicks) : \E f \in PatFaultTable[faults] :
    LET rows      == patTicks[k]
        validated == {rows[j].id : j \in 1..Len(rows)} \ patInvalid
    IN  /\ Responds(validated # {})
        /\ patTicks' = RemoveAt(patTicks, k)
        /\ patDlq' = WriteDlq(patDlq,
                               IF validated = {}
                               THEN {rows[j].id : j \in 1..Len(rows)}
                               ELSE PatDeadLettered(rows, f, patInvalid),
                               FALSE)
        /\ patAccepted' = patAccepted \cup PatPushed(rows, f, patInvalid)
        /\ patWm' = PatCommit(patWm, rows, validated)
        /\ faults' = faults - (IF validated = {} THEN 0 ELSE Cardinality(f.put))
        /\ lastRun' = [kind |-> "patFinish", batch |-> IdsOf(rows),
                       failed |-> Cardinality(validated \ PatPushed(rows, f, patInvalid)),
                       committed |-> (validated # {})]
        /\ lastPuts' = {}
        /\ lastSent' = <<>>
        /\ lastResolved' = {}
        /\ lastPosts' = PatPosts(rows, f, patInvalid)
        /\ UNCHANGED << now, mpi, obsInvalid, patInvalid, resCall, held, race, hung, fnCall, alive, obsStore, obsVars, patFetched >>

\* the patient stream with a dead-letter directory that may refuse writes
NextDisk == PatPollFetch \/ PatPollFinish \/ PatPollFinishDiskFull

\* the tick when the mediator only fails transiently (5xx, transport errors)
PatPollFinishTransient == PatPollFinishWith({"s5xx", "neterr"})

(* --------------------------- database errors -------------------------- *)
\* a tick whose error is not caught: the rejection of the promise is unhandled
\* and ends the process
PollErrorEscapes(stage) == FALSE

\* the catch block around the body of pollAndProcess: the error is logged and the
\* async function returns, so the process and its interval timer live on
PollErrorCaught(stage) == TRUE

\* an observation tick in which markExpired, getWatermark or the source query
\* rejects
ObsPollFails ==
  /\ alive
  /\ Len(obsTicks) < MaxInFlight
  /\ \E stage \in {"markExpired", "getWatermark", "fetch"} :
       /\ queue' = IF stage = "markExpired" THEN queue ELSE MarkExpired(queue, now)
       /\ alive' = PollErrorCaught(stage)
  /\ lastRun' = [kind |-> "obsFetchFailed", batch |-> <<>>, failed |-> 0,
                 committed |-> FALSE]
  /\ lastPuts' = {}
  /\ lastSent' = <<>>
  /\ lastResolved' = {}
  /\ UNCHANGED << now, faults, mpi, shr, obsInvalid, patInvalid, resCall, held, race, hung, fnCall, obsStore, obsWm,
                  obsTicks, obsAccepted, obsDlq, patVars >>

\* a patient tick in which getWatermark or the source query rejects
PatPollFails ==
  /\ alive
  /\ Len(patTicks) < MaxInFlight
  /\ \E stage \in {"getWatermark", "fetch"} : alive' = PollErrorCaught(stage)
  /\ lastRun' = [kind |-> "patFetchFailed", batch |-> <<>>, failed |-> 0,
                 committed |-> FALSE]
  /\ lastPuts' = {}
  /\ lastSent' = <<>>
  /\ lastResolved' = {}
  /\ lastPosts' = {}
  /\ UNCHANGED << now, faults, mpi, obsInvalid, patInvalid, resCall, held, race, hung, fnCall, obsStore, obsVars,
                  patWm, patTicks, patAccepted, patDlq, patFetched >>

(* ---------------------------- process stop ---------------------------- *)
\* lastRun after the process stopped or started
StopRun == [kind |-> "stopped", batch |-> <<>>, failed |-> 0, committed |-> FALSE]

StartedRun == [kind |-> "started", batch |-> <<>>, failed |-> 0, committed |-> FALSE]

\* the process stops while an observation tick has processed the first n patient
\* groups of its batch: what the tick did so far stays, setWatermark (the last
\* statement of the tick) was not reached, every tick in progress is gone
ObsTickStopped ==
  /\ alive
  /\ \E k \in 1..Len(obsTicks) : \E f \in FaultTable[0] :
       LET rows  == obsTicks[k]
           order == PatientOrder(rows)
       IN  \E n \in 0..Len(order) :
             \E st \in {ProcessGroups(StartRun(queue, obsDlq, obsAccepted, shr),
                                      SubSeq(order, 1, n), rows, f, mpi, obsInvalid, now)} :
               /\ \A e \in st.queue : e.retry_count <= MaxRetryCount
               /\ queue' = st.queue
               /\ obsDlq' = st.dlq
               /\ obsAccepted' = st.accepted
               /\ shr' = st.shr
               /\ lastPuts' = st.puts
               /\ lastSent' = st.sent
               /\ obsStore' = StoreAfter(obsStore, st.puts, now)
               /\ lastResolved' = st.resolved
  /\ obsTicks' = <<>>
  /\ patTicks' = <<>>
  /\ alive' = FALSE
  /\ lastRun' = StopRun
  /\ lastPosts' = {}
  /\ UNCHANGED << now, faults, mpi, obsInvalid, patInvalid, resCall, held, race, hung, fnCall, obsWm, patWm,
                  patAccepted, patDlq, patFetched >>

\* the process stops while a patient tick has pushed the first n validated rows
\* of its batch
PatTickStopped ==
  /\ alive
  /\ \E k \in 1..Len(patTicks) :
       LET rows      == patTicks[k]
           validated == SelectSeq(rows, LAMBDA r : r.id \notin patInvalid)
       IN  \E n \in 0..Len(validated) :
             /\ patDlq' = patDlq \cup ({rows[j].id : j \in 1..Len(rows)} \cap patInvalid)
             /\ patAccepted' = patAccepted \cup {validated[j].id : j \in 1..n}
             /\ lastPosts' = PatPosts(SubSeq(validated, 1, n), [put |-> {}, mode |-> "s5xx"],
                                      patInvalid)
  /\ obsTicks' = <<>>
  /\ patTicks' = <<>>
  /\ alive' = FALSE
  /\ lastRun' = StopRun
  /\ lastPuts' = {}
  /\ lastSent' = <<>>
  /\ lastResolved' = {}
  /\ UNCHANGED << now, faults, mpi, shr, obsInvalid, patInvalid, resCall, held, race, hung, fnCall, obsStore, obsWm,
                  queue, obsAccepted, obsDlq, patWm, patFetched >>

\* the process is started again: both pipelines arm their timers
ProcessStarts ==
  /\ ~alive
  /\ alive' = TRUE
  /\ lastRun' = StartedRun
  /\ lastPuts' = {}
  /\ lastSent' = <<>>
  /\ lastResolved' = {}
  /\ UNCHANGED << now, faults, mpi, obsInvalid, patInvalid, resCall, held, race, hung, fnCall, obsStore, obsVars,
                  patVars >>

(* ------------------------- candidate selection ------------------------ *)
\* identifier fields of an MPI patient (SimplifiedPatient.identifiers)
IdentifierFields == {"phid", "neotreeId", "patientId", "personId"}

\* most candidates one MPI response holds
MaxCandidates == 3

\* MPI patients that can answer one search: an id and the populated fields
Candidates == [id : 1..MaxCandidates, identifiers : SUBSET IdentifierFields]

\* responses of searchByIdentifier with several candidates, each once
Responses ==
  UNION { {r \in [1..n -> Candidates] : \A j, k \in 1..n : j # k => r[j].id # r[k].id}
          : n \in 2..MaxCandidates }

\* Object.values(p.identifiers).filter(Boolean).length
IdentifierCount(p) == Cardinality(p.identifiers)

\* opencrPatients.reduce((best, current) => currentCount > bestCount ? current : best)
RECURSIVE MostIdentifiers(_, _)
MostIdentifiers(best, rest) ==
  IF rest = <<>> THEN best
  ELSE MostIdentifiers(IF IdentifierCount(Head(rest)) > IdentifierCount(best)
                       THEN Head(rest) ELSE best,
                       Tail(rest))

\* verifyPatientExists, selection among several candidates: the first with a
\* PHID (find), else the one reduce ends with
SelectBest(opencrPatients) ==
  IF \E k \in 1..Len(opencrPatients) : "phid" \in opencrPatients[k].identifiers
  THEN opencrPatients[CHOOSE k \in 1..Len(opencrPatients) :
                        /\ "phid" \in opencrPatients[k].identifiers
                        /\ \A j \in 1..(k - 1) : "phid" \notin opencrPatients[j].identifiers]
  ELSE MostIdentifiers(Head(opencrPatients), Tail(opencrPatients))

\* the orderings of one response
Orderings(r) ==
  {q \in [1..Len(r) -> {r[k] : k \in 1..Len(r)}] :
     \A j, k \in 1..Len(r) : j # k => q[j] # q[k]}

\* the responses the selection can be handed
SelectInputs == {[fn |-> "selectInput", response |-> r] : r \in Responses}

(* --------------------------- SHR projection --------------------------- *)
\* optional members of a Patient resource the MPI can return (FhirPatient, and
\* the members a FHIR server adds)
PatientFields ==
  {"id", "meta", "identifier", "name", "gender", "birthDate", "address",
   "managingOrganization", "link"}

\* the value of a member the code leaves undefined
Undefined == "undefined"

\* values the MPI can hold in gender
Genders == {"male", "female"}

\* the Patient resources GET /Patient/<id> of the MPI can answer with
MpiPatients ==
  { [f \in s \cup {"resourceType"} |->
       IF f = "resourceType" THEN "Patient"
       ELSE IF f = "gender" THEN g
       ELSE "mpi-" \o f] : s \in SUBSET PatientFields, g \in Genders }

\* obj.f of a JavaScript object
Member(obj, f) == IF f \in DOMAIN obj THEN obj[f] ELSE Undefined

\* JSON.stringify(payload): members whose value is undefined are left out
JsonStringify(obj) == [f \in {g \in DOMAIN obj : obj[g] # Undefined} |-> obj[f]]

\* a projection that copies the MPI's resource whole
ShrPatientWhole(opencrPatientFull) == opencrPatientFull

\* verifyPatientExists, shrPatient: the shallow patient prepared for the SHR
ShrPatient(opencrPatientFull) ==
  [f \in {"resourceType", "identifier", "gender", "birthDate", "managingOrganization"} |->
     IF f = "resourceType" THEN "Patient" ELSE Member(opencrPatientFull, f)]

\* the MPI resources the projection can be handed
ProjectInputs == {[fn |-> "projectInput", full |-> p] : p \in MpiPatients}

(* ------------------------------- strings ------------------------------ *)
\* a string is the sequence of its characters; TAB, LF and NUL stand for the
\* control characters U+0009, U+000A and U+0000
WhitespaceChars == {" ", "TAB", "LF"}

\* String.prototype.trim
RECURSIVE TrimStart(_)
TrimStart(s) == IF s # <<>> /\ Head(s) \in WhitespaceChars THEN TrimStart(Tail(s)) ELSE s

RECURSIVE TrimEnd(_)
TrimEnd(s) ==
  IF s # <<>> /\ s[Len(s)] \in WhitespaceChars THEN TrimEnd(SubSeq(s, 1, Len(s) - 1)) ELSE s

Trim(s) == TrimEnd(TrimStart(s))

(* --------------------------- patient mapping -------------------------- *)
\* values a column of the joined row can hold: null or empty, blank, an id
\* with a leading space
ColumnValues == {<<>>, <<" ">>, <<" ", "7">>}

\* the identifier columns of NeonatalCareWithDemographics
NeonatalCareRows ==
  [phid : ColumnValues, impilo_neotree_id : ColumnValues, neotree_id : ColumnValues,
   person_id : ColumnValues, patient_id : ColumnValues]

\* identifiers.push({system, value}) when the condition holds
PushIf(cond, system, value) == IF cond THEN <<[system |-> system, value |-> value]>> ELSE <<>>

\* PatientMapper.map of part_001, identifiers: phid, IMPILO-NEOTREE-ID, person_id
\* (twice, the second time as urn:impilo:uid)
PatientMapperIdentifiers(row) ==
  PushIf(row.phid # <<>> /\ Trim(row.phid) # <<>>, "urn:impilo:phid", Trim(row.phid))
  \o PushIf(row.impilo_neotree_id # <<>> /\ Trim(row.impilo_neotree_id) # <<>>,
            "urn:neotree:impilo-id", Trim(row.impilo_neotree_id))
  \o PushIf(row.person_id # <<>>, "urn:impilo:person-id", row.person_id)
  \o PushIf(row.person_id # <<>>, "urn:impilo:uid", row.person_id)

\* PatientMapper.map of mapping/patient.ts, identifiers: NEOTREE-IMPILO-ID, then
\* patient_id
PatientMapperIdentifiersNeotree(row) ==
  PushIf(row.neotree_id # <<>> /\ Trim(row.neotree_id) # <<>>,
         "urn:neotree:impilo-id", Trim(row.neotree_id))
  \o PushIf(row.patient_id # <<>>, "urn:impilo:uid", row.patient_id)

\* the two classes named PatientMapper
PatientMapperClasses == {"part_001", "mapping/patient.ts"}

\* the rows the two classes can be handed
PatientMapInputs ==
  {[fn |-> "patientMapInput", class |-> c, row |-> r] :
     c \in PatientMapperClasses, r \in NeonatalCareRows}

(* ------------------------- gender normalization ----------------------- *)
\* the letters of the words below, in lower and in upper case
LowerLetters == <<"a", "e", "f", "h", "l", "m", "o", "r", "t", "x">>

UpperLetters == <<"A", "E", "F", "H", "L", "M", "O", "R", "T", "X">>

ToUpperChar(c) ==
  IF \E k \in 1..Len(LowerLetters) : LowerLetters[k] = c
  THEN UpperLetters[CHOOSE k \in 1..Len(LowerLetters) : LowerLetters[k] = c]
  ELSE c

ToLowerChar(c) ==
  IF \E k \in 1..Len(UpperLetters) : UpperLetters[k] = c
  THEN LowerLetters[CHOOSE k \in 1..Len(UpperLetters) : UpperLetters[k] = c]
  ELSE c

\* String.prototype.toLowerCase
ToLowerCase(s) == [k \in 1..Len(s) |-> ToLowerChar(s[k])]

\* a word in every mix of letter cases
CaseVariants(w) ==
  {[k \in 1..Len(w) |-> IF k \in up THEN ToUpperChar(w[k]) ELSE w[k]] : up \in SUBSET (1..Len(w))}

\* longest value of the short inputs
MaxSexLen == 2

\* values of the column sex: absent or empty, short strings, and the words in
\* every mix of cases
SexValues ==
  UNION {[1..n -> {"m", "M", "f", "F", "o", "x", " "}] : n \in 0..MaxSexLen}
  \cup CaseVariants(<<"m", "a", "l", "e">>)
  \cup CaseVariants(<<"f", "e", "m", "a", "l", "e">>)
  \cup CaseVariants(<<"o", "t", "h", "e", "r">>)
  \cup {<<"m", "a", "l", "e", " ">>, <<"m", "a", "l", "e", "s">>}

\* the value a function returns for undefined
UndefinedGender == <<"undefined">>

\* normalizeGender of part_001
normalizeGender(sex) ==
  IF sex = <<>> THEN UndefinedGender
  ELSE LET s == Trim(ToLowerCase(sex))
       IN  IF s = <<"m">> \/ s = <<"m", "a", "l", "e">> THEN <<"male">>
           ELSE IF s = <<"f">> \/ s = <<"f", "e", "m", "a", "l", "e">> THEN <<"female">>
           ELSE IF s = <<"o", "t", "h", "e", "r">> \/ s = <<"o">> THEN <<"other">>
           ELSE <<"unknown">>

\* normalizeGender of mapping/patient.ts
normalizeGenderNoOther(sex) ==
  IF sex = <<>> THEN UndefinedGender
  ELSE LET s == ToLowerCase(sex)
       IN  IF s = <<"m">> \/ s = <<"m", "a", "l", "e">> THEN <<"male">>
           ELSE IF s = <<"f">> \/ s = <<"f", "e", "m", "a", "l", "e">> THEN <<"female">>
           ELSE <<"unknown">>

\* the values the two functions can be handed
GenderInputs ==
  {[fn |-> "genderInput", class |-> c, sex |-> s] : c \in PatientMapperClasses, s \in SexValues}

(* ----------------------- program-specific id format -------------------- *)
DigitChars == {"0", "1", "2", "3", "4", "5", "6", "7", "8", "9"}

\* [0-9A-Fa-f]
HexChars == DigitChars \cup {"A", "B", "C", "D", "E", "F", "a", "b", "c", "d", "e", "f"}

\* [A-Za-z]
LetterChars ==
  {"A", "B", "C", "D", "E", "F", "G", "H", "I", "J", "K", "L", "M", "N", "O", "P", "Q", "R",
   "S", "T", "U", "V", "W", "X", "Y", "Z", "a", "b", "c", "d", "e", "f", "g", "h", "i", "j",
   "k", "l", "m", "n", "o", "p", "q", "r", "s", "t", "u", "v", "w", "x", "y", "z"}

\* an anchored regular expression of fixed width, as the classes of its positions
RegexTest(classes, s) == Len(s) = Len(classes) /\ \A k \in 1..Len(s) : s[k] \in classes[k]

\* /^[0-9A-Fa-f]{2}-[0-9A-Fa-f]{2}-[0-9A-Fa-f]{2}-\d{4}-[A-Za-z]-\d{5}$/
neotreeIdRegex ==
  <<HexChars, HexChars, {"-"}, HexChars, HexChars, {"-"}, HexChars, HexChars, {"-"},
    DigitChars, DigitChars, DigitChars, DigitChars, {"-"}, LetterChars, {"-"},
    DigitChars, DigitChars, DigitChars, DigitChars, DigitChars>>

\* id.split("-")
RECURSIVE SplitFrom(_, _, _)
SplitFrom(s, k, part) ==
  IF k > Len(s) THEN <<part>>
  ELSE IF s[k] = "-" THEN <<part>> \o SplitFrom(s, k + 1, <<>>)
  ELSE SplitFrom(s, k + 1, Append(part, s[k]))

Split(s) == SplitFrom(s, 1, <<>>)

DigitValue(c) ==
  CASE c = "0" -> 0 [] c = "1" -> 1 [] c = "2" -> 2 [] c = "3" -> 3 [] c = "4" -> 4
    [] c = "5" -> 5 [] c = "6" -> 6 [] c = "7" -> 7 [] c = "8" -> 8 [] c = "9" -> 9

\* the value Number.parseInt gives for NaN
NaN == 0 - 1

\* Number.parseInt(s, 10): the leading digits, NaN when there is none
RECURSIVE ParseDigits(_, _, _)
ParseDigits(s, k, acc) ==
  IF k > Len(s) \/ s[k] \notin DigitChars THEN acc
  ELSE ParseDigits(s, k + 1, 10 * acc + DigitValue(s[k]))

ParseInt(s) ==
  LET t == TrimStart(s)
  IN  IF t = <<>> \/ Head(t) \notin DigitChars THEN NaN ELSE ParseDigits(t, 1, 0)

\* an id check without the bounds on the year
isValidNeotreeIdAnyYear(id) == RegexTest(neotreeIdRegex, id)

\* PatientValidator.isValidNeotreeId
isValidNeotreeId(id) ==
  /\ RegexTest(neotreeIdRegex, id)
  /\ LET parts == Split(id)
     IN  /\ Len(parts) = 6
         /\ \A k \in 1..6 : parts[k] # <<>>
         /\ \A k \in 1..3 : RegexTest(<<HexChars, HexChars>>, parts[k])
         /\ ParseInt(parts[4]) # NaN
         /\ ParseInt(parts[4]) >= 1900
         /\ ParseInt(parts[4]) <= 2100
         /\ RegexTest(<<LetterChars>>, parts[5])
         /\ RegexTest(<<DigitChars, DigitChars, DigitChars, DigitChars, DigitChars>>, parts[6])

\* PatientValidator.sanitize, identifiers: system and value trimmed
SanitizeIdentifiers(identifier) ==
  [k \in 1..Len(identifier) |->
     [system |-> identifier[k].system,
      value |-> IF identifier[k].value # <<>> THEN Trim(identifier[k].value)
                ELSE identifier[k].value]]

\* PatientValidator.validate, the errors about identifiers
ValidateIdentifiers(identifier) ==
  IF identifier = <<>> THEN {"Patient must have at least one identifier"}
  ELSE {"Identifier: value is required" : k \in
           {j \in 1..Len(identifier) :
              identifier[j].value = <<>> \/ Trim(identifier[j].value) = <<>>}}
       \cup
       (IF \E k \in 1..Len(identifier) : identifier[k].system = "urn:neotree:impilo-id"
        THEN LET neotreeId ==
                   identifier[CHOOSE k \in 1..Len(identifier) :
                     /\ identifier[k].system = "urn:neotree:impilo-id"
                     /\ \A j \in 1..(k - 1) : identifier[j].system # "urn:neotree:impilo-id"]
             IN  IF neotreeId.value # <<>> /\ ~isValidNeotreeId(Trim(neotreeId.value))
                 THEN {"Invalid NEOTREE-IMPILO-ID format"}
                 ELSE {}
        ELSE {})

\* the id given as the example of the format
ExampleNeotreeId == <<"0", "0", "-", "0", "A", "-", "3", "4", "-", "2", "0", "2", "5", "-", "N", "-", "0", "1", "0", "3", "1">>

\* characters put in place of a character of the example
ProbeChars == {"0", "9", "A", "f", "G", "z", "-", " "}

\* years put in place of the example's year
ProbeYears ==
  {<<"1", "8", "9", "9">>, <<"1", "9", "0", "0">>, <<"1", "9", "0", "1">>, <<"2", "0", "2", "5">>, <<"2", "0", "9", "9">>, <<"2", "1", "0", "0">>, <<"2", "1", "0", "1">>, <<"3", "0", "2", "5">>, <<"0", "0", "0", "0">>, <<"9", "9", "9", "9">>}

\* values of the column impilo_neotree_id: the example with one character
\* replaced, dropped or added, with another year, with whitespace around it
NeotreeIdValues ==
  {[ExampleNeotreeId EXCEPT ![k] = c] : k \in 1..Len(ExampleNeotreeId), c \in ProbeChars}
  \cup {SubSeq(ExampleNeotreeId, 1, k - 1) \o SubSeq(ExampleNeotreeId, k + 1, Len(ExampleNeotreeId))
         : k \in 1..Len(ExampleNeotreeId)}
  \cup {SubSeq(ExampleNeotreeId, 1, k) \o <<c>> \o SubSeq(ExampleNeotreeId, k + 1, Len(ExampleNeotreeId))
         : k \in 0..Len(ExampleNeotreeId), c \in {"0", "-", " "}}
  \cup {SubSeq(ExampleNeotreeId, 1, 9) \o y \o SubSeq(ExampleNeotreeId, 14, 21) : y \in ProbeYears}
  \cup {<<>>, <<" ">>}

NeotreeIdInputs == {[fn |-> "neotreeIdInput", column |-> v] : v \in NeotreeIdValues}

(* ----------------------------- sanitizing ------------------------------ *)
\* [\x00-\x1F\x7F]
ControlChars == {"TAB", "LF", "NUL"}

\* .replace(/[\x00-\x1F\x7F]/g, "")
RemoveControlChars(s) == SelectSeq(s, LAMBDA c : c \notin ControlChars)

\* .replace(/\s+/g, " ")
RECURSIVE CollapseWhitespace(_)
CollapseWhitespace(s) ==
  IF s = <<>> THEN <<>>
  ELSE IF Head(s) \in WhitespaceChars
       THEN <<" ">> \o CollapseWhitespace(TrimStart(s))
       ELSE <<Head(s)>> \o CollapseWhitespace(Tail(s))

\* sanitizeString: trim, remove control characters, normalize whitespace
sanitizeString(str) == CollapseWhitespace(RemoveControlChars(Trim(str)))

\* longest free text tried
MaxTextLen == 4

\* free texts: a letter, a space, a tabulator and a NUL in every arrangement
FreeTexts == UNION {[1..n -> {"a", " ", "TAB", "NUL"}] : n \in 0..MaxTextLen}

SanitizeInputs == {[fn |-> "sanitizeInput", text |-> t] : t \in FreeTexts}

(* --------------------------- cursor values ---------------------------- *)
\* a NULL in a date column (DATE_FORMAT of NULL is NULL)
NoDate == <<>>

\* most rows of a table tried
MaxTableRows == 3

\* rows of a source table by id and ordering timestamp, which can be NULL; the
\* query formats a timestamp as the string YYYY-MM-DD HH:MM:SS
DatedRows == [id : 1..MaxTableRows, date : {NoDate, <<"ts", 1>>, <<"ts", 2>>}]

\* ORDER BY <timestamp>, <id>: NULL sorts first
DateBefore(a, b) ==
  IF a.date = b.date THEN a.id < b.id
  ELSE IF a.date = NoDate THEN TRUE
  ELSE IF b.date = NoDate THEN FALSE
  ELSE a.date[2] < b.date[2]

\* the batches a first poll (no watermark) can return: rows with distinct ids
\* in the order of the query
DatedBatches ==
  UNION { {b \in [1..n -> DatedRows] :
             \A j, k \in 1..n : j < k => b[j].id # b[k].id /\ DateBefore(b[j], b[k])}
          : n \in 1..MaxTableRows }

\* String(value)
StringOf(v) == IF v = NoDate THEN <<"null">> ELSE v

\* no setWatermark call
NoWrite == <<"none">>

\* the observation tick's argument of setWatermark: String(lastRow.date), or
\* lastRow.id when the date is not available; nothing when a row failed
ObsCursorValue(rows, totalFailed) ==
  LET lastRow == rows[Len(rows)]
  IN  IF totalFailed = 0
      THEN IF lastRow.date # NoDate THEN StringOf(lastRow.date) ELSE <<"id", lastRow.id>>
      ELSE NoWrite

\* the patient tick's argument of setWatermark: String(lastRow.date_time_admission);
\* nothing when no row validated
PatCursorValue(rows, validatedCount) ==
  LET lastRow == rows[Len(rows)]
  IN  IF validatedCount = 0 THEN NoWrite ELSE StringOf(lastRow.date)

\* batches with the outcome that decides the commit: the count of failed rows
\* (observations) or of validated rows (patients)
CursorInputs ==
  {[fn |-> "cursorInput", stream |-> s, rows |-> b, count |-> c] :
     s \in {"observations", "patients"}, b \in DatedBatches, c \in {0, 1}}

(* ------------------------- concurrent resolving ----------------------- *)
\* handlers that can be inside verifyPatientExists for the same patient at the
\* same time: the poll tick, the queue sweep, and a second element of one
\* verifyPatients batch
Callers == {"poll", "sweep", "batch"}

\* race before any call has started
NoRace == [pos |-> [c \in Callers |-> "start"], projections |-> 0, created |-> {}]

\* what fnCall can hold before a call
FnInputs == {NoFnCall} \cup SelectInputs \cup ProjectInputs
  \cup PatientMapInputs
  \cup GenderInputs
  \cup NeotreeIdInputs
  \cup SanitizeInputs
  \cup CursorInputs

(* --------------------------- specifications --------------------------- *)
Init ==
  /\ now = 0
  /\ faults \in {0, MaxFaults}
  /\ mpi \in {{}, Patients}
  /\ shr = {}
  /\ obsInvalid \in {{}, {4}}
  /\ patInvalid \in {{2}, {2, 3, 4}}
  /\ obsWm = 0
  /\ obsTicks = <<>>
  /\ queue = {}
  /\ obsAccepted = {}
  /\ obsDlq = {}
  /\ lastPuts = {}
  /\ lastResolved = {}
  /\ lastRun = NoRun
  /\ patWm = 0
  /\ patTicks = <<>>
  /\ patAccepted = {}
  /\ patDlq = {}
  /\ patFetched = {}
  /\ lastPosts = {}
  /\ resCall = NoCall
  /\ obsStore = {}
  /\ alive = TRUE
  /\ lastSent = <<>>
  /\ fnCall \in FnInputs
  /\ hung = FALSE
  /\ race = NoRace
  /\ held = [h \in Handlers |-> {}]

\* the observation stream does not read the patient rows, nor the patient
\* stream the observation rows
InitObs == Init /\ patInvalid = {2} /\ faults = MaxFaults /\ mpi = {} /\ fnCall = NoFnCall

InitPat == Init /\ obsInvalid = {} /\ faults = MaxFaults /\ mpi = {} /\ fnCall = NoFnCall

NextObs == ObsPollFetch \/ ObsPollFinish \/ SweepQueue \/ MpiRegister \/ AdvanceClock

NextPat == PatPollFetch \/ PatPollFinish

\* the patient stream with a mediator that can stop responding
NextPatHang == PatPollFetch \/ PatPollFinish \/ MediatorHangs

InitRes == Init /\ obsInvalid = {} /\ patInvalid = {2} /\ faults = MaxFaults /\ mpi = {} /\ fnCall = NoFnCall

NextRes == ResolverCall \/ MpiRegister

\* both streams with a healthy mediator, a source database that can fail and a
\* process that can be stopped and started again
InitDb == Init /\ obsInvalid = {} /\ patInvalid = {2} /\ faults = 0 /\ mpi = {} /\ fnCall = NoFnCall

NextDb ==
  \/ ObsPollFetch \/ ObsPollFails \/ ObsPollFinishDb \/ MpiRegister
  \/ PatPollFetch \/ PatPollFails \/ PatPollFinish
  \/ ObsTickStopped \/ PatTickStopped \/ ProcessStarts

(* ----------------------- stand-alone function calls ------------------- *)
\* the two classes named ObservationMapper
MapperClasses == {"part_002", "mapping/observation.ts"}

\* patient ids a caller can hand to map: none (absent or empty), an id taken
\* from an SHR response, raw or normalized, or the source-database id
MapperIds ==
  {Null} \cup {ShrRawId(p) : p \in Patients}
         \cup {NormalizeId(ShrRawId(p)) : p \in Patients}
         \cup {<<p>> : p \in Patients}

\* one call of ObservationMapper.map at clock value t
MapperCall ==
  \E c \in MapperClasses, row \in ObsRows, pid \in MapperIds, t \in 0..MaxTime :
    LET r == IF c = "part_002"
             THEN ObservationMapperMap(row, pid)
             ELSE ObservationMapperMapOptional(row, pid)
    IN  /\ fnCall' = [fn |-> "map", class |-> c, row |-> row, patientResourceId |-> pid,
                       at |-> t, thrown |-> ~r.ok, id |-> r.id, subject |-> r.subject,
                       issued |-> IF c = "part_002" /\ r.ok THEN <<t>> ELSE Null]
        /\ UNCHANGED << now, faults, mpi, obsInvalid, patInvalid, resCall, held, race, hung, obsStore,
                        alive, lastSent, lastRun, lastPuts, lastResolved,
                        obsVars, patVars >>

\* the selection for one response, and for that response in every other order
SelectCall ==
  /\ fnCall.fn = "selectInput"
  /\ LET r == fnCall.response IN
    /\ fnCall' = [fn |-> "select", response |-> r, selected |-> SelectBest(r),
                   reordered |-> {SelectBest(q) : q \in Orderings(r)}]
    /\ UNCHANGED << now, faults, mpi, obsInvalid, patInvalid, resCall, held, race, hung, obsStore,
                    alive, lastSent, lastRun, lastPuts, lastResolved,
                    obsVars, patVars >>

\* the body verifyPatientExists POSTs to the SHR for one MPI resource
ProjectCall ==
  /\ fnCall.fn = "projectInput"
  /\ fnCall' = [fn |-> "project", full |-> fnCall.full,
                 posted |-> JsonStringify(ShrPatient(fnCall.full))]
  /\ UNCHANGED << now, faults, mpi, obsInvalid, patInvalid, resCall, held, race, hung, obsStore,
                  alive, lastSent, lastRun, lastPuts, lastResolved,
                  obsVars, patVars >>

InitProject ==
  Init /\ obsInvalid = {} /\ patInvalid = {2} /\ faults = 0 /\ mpi = {} /\ fnCall \in ProjectInputs

NextProject == ProjectCall

\* one call of PatientMapper.map
PatientMapCall ==
  /\ fnCall.fn = "patientMapInput"
  /\ fnCall' = [fn |-> "patientMap", class |-> fnCall.class, row |-> fnCall.row,
                 identifier |-> IF fnCall.class = "part_001"
                                THEN PatientMapperIdentifiers(fnCall.row)
                                ELSE PatientMapperIdentifiersNeotree(fnCall.row)]
  /\ UNCHANGED << now, faults, mpi, obsInvalid, patInvalid, resCall, held, race, hung, obsStore,
                  alive, lastSent, lastRun, lastPuts, lastResolved,
                  obsVars, patVars >>

InitPatientMap ==
  Init /\ obsInvalid = {} /\ patInvalid = {2} /\ faults = 0 /\ mpi = {}
       /\ fnCall \in PatientMapInputs

NextPatientMap == PatientMapCall

\* one call of normalizeGender
GenderCall ==
  /\ fnCall.fn = "genderInput"
  /\ fnCall' = [fn |-> "gender", class |-> fnCall.class, sex |-> fnCall.sex,
                 gender |-> IF fnCall.class = "part_001"
                            THEN normalizeGender(fnCall.sex)
                            ELSE normalizeGenderNoOther(fnCall.sex)]
  /\ UNCHANGED << now, faults, mpi, obsInvalid, patInvalid, resCall, held, race, hung, obsStore,
                  alive, lastSent, lastRun, lastPuts, lastResolved,
                  obsVars, patVars >>

InitGender ==
  Init /\ obsInvalid = {} /\ patInvalid = {2} /\ faults = 0 /\ mpi = {}
       /\ fnCall \in GenderInputs

NextGender == GenderCall

\* the row of the patient stream whose impilo_neotree_id is v
RowWithNeotreeId(v) ==
  [phid |-> <<>>, impilo_neotree_id |-> v, neotree_id |-> <<>>, person_id |-> <<"7">>,
   patient_id |-> <<"7">>]

\* isValidNeotreeId on the column value, and the patient stream's map, sanitize
\* and validate on the row that carries it
NeotreeIdCall ==
  /\ fnCall.fn = "neotreeIdInput"
  /\ LET sanitized == SanitizeIdentifiers(PatientMapperIdentifiers(RowWithNeotreeId(fnCall.column)))
     IN  fnCall' = [fn |-> "neotreeId", column |-> fnCall.column,
                    test |-> isValidNeotreeId(fnCall.column),
                    identifier |-> sanitized,
                    errors |-> ValidateIdentifiers(sanitized)]
  /\ UNCHANGED << now, faults, mpi, obsInvalid, patInvalid, resCall, held, race, hung, obsStore,
                  alive, lastSent, lastRun, lastPuts, lastResolved,
                  obsVars, patVars >>

InitNeotreeId ==
  Init /\ obsInvalid = {} /\ patInvalid = {2} /\ faults = 0 /\ mpi = {}
       /\ fnCall \in NeotreeIdInputs

NextNeotreeId == NeotreeIdCall

\* PatientValidator.sanitize and ObservationValidator.sanitize on resources whose
\* free-text fields all hold the same text: a name (family, given) and a
\* valueString go through sanitizeString when present, a coding's display is
\* trimmed
SanitizeCall ==
  /\ fnCall.fn = "sanitizeInput"
  /\ LET t == fnCall.text
     IN  fnCall' = [fn |-> "sanitize", text |-> t,
                    family |-> IF t # <<>> THEN sanitizeString(t) ELSE t,
                    given |-> sanitizeString(t),
                    valueString |-> IF t # <<>> THEN sanitizeString(t) ELSE t,
                    display |-> IF t # <<>> THEN Trim(t) ELSE t]
  /\ UNCHANGED << now, faults, mpi, obsInvalid, patInvalid, resCall, held, race, hung, obsStore,
                  alive, lastSent, lastRun, lastPuts, lastResolved,
                  obsVars, patVars >>

InitSanitize ==
  Init /\ obsInvalid = {} /\ patInvalid = {2} /\ faults = 0 /\ mpi = {}
       /\ fnCall \in SanitizeInputs

NextSanitize == SanitizeCall

\* the end of a tick: the value handed to setWatermark
CursorCall ==
  /\ fnCall.fn = "cursorInput"
  /\ fnCall' = [fn |-> "cursor", stream |-> fnCall.stream, rows |-> fnCall.rows,
                 count |-> fnCall.count,
                 written |-> IF fnCall.stream = "observations"
                             THEN ObsCursorValue(fnCall.rows, fnCall.count)
                             ELSE PatCursorValue(fnCall.rows, fnCall.count)]
  /\ UNCHANGED << now, faults, mpi, obsInvalid, patInvalid, resCall, held, race, hung, obsStore,
                  alive, lastSent, lastRun, lastPuts, lastResolved,
                  obsVars, patVars >>

InitCursor ==
  Init /\ obsInvalid = {} /\ patInvalid = {2} /\ faults = 0 /\ mpi = {}
       /\ fnCall \in CursorInputs

NextCursor == CursorCall

\* a step of one call: its new position, and whether it made a projection
RaceStep(c, to, made) ==
  /\ race' = [race EXCEPT !.pos[c] = to,
                          !.projections = @ + made,
                          !.created = IF made = 1 THEN @ \cup {c} ELSE @]
  /\ UNCHANGED << now, faults, mpi, obsInvalid, patInvalid, resCall, held, hung, fnCall, obsStore,
                  alive, lastSent, lastRun, lastPuts, lastResolved, obsVars, patVars >>

\* step 1: the MPI search finds the patient
RaceMpiSearch ==
  \E c \in Callers : race.pos[c] = "start" /\ RaceStep(c, "found", 0)

\* step 2: the SHR search by identifier; a hit returns the projection's id
RaceShrSearch ==
  \E c \in Callers :
    /\ race.pos[c] = "found"
    /\ RaceStep(c, IF race.projections > 0 THEN "returned" ELSE "missed", 0)

\* step 3, first request: GET of the MPI's Patient resource
RaceGetFull ==
  \E c \in Callers : race.pos[c] = "missed" /\ RaceStep(c, "fetched", 0)

\* step 3, second request: POST of the shallow Patient to the SHR, a plain
\* create
RaceCreate ==
  \E c \in Callers : race.pos[c] = "fetched" /\ RaceStep(c, "returned", 1)

InitRace ==
  Init /\ obsInvalid = {} /\ patInvalid = {2} /\ faults = 0 /\ mpi = Patients
       /\ fnCall = NoFnCall

NextRace == RaceMpiSearch \/ RaceShrSearch \/ RaceGetFull \/ RaceCreate

(* ------------- the queue table, one SQL statement per step ------------- *)
\* the statements of ObservationQueue as the handlers interleave them: a
\* replay reads a patient's pending entries, awaits the resolver and the
\* pushes, and only then settles each entry it read
QueueStep(q, h) ==
  /\ queue' = q
  /\ held' = h
  /\ UNCHANGED << now, faults, mpi, obsInvalid, patInvalid, resCall, race, hung, fnCall,
                  obsStore, alive, lastSent, lastRun, lastPuts, lastResolved,
                  obsWm, obsTicks, obsAccepted, obsDlq, shr, patVars >>

\* the observations the statement-level runs enqueue: one that validates and
\* one that does not, of the same patient
QueueRows == {r \in ObsRows : r.id >= 3}

\* enqueue, one observation: the INSERT with its duplicate-key clause
QueueEnqueue ==
  \E r \in QueueRows :
    /\ \A x \in queue : x.id = r.id => x.retry_count < MaxRetryCount
    /\ QueueStep(EnqueueOne(queue, r.patient, r, now), held)

\* markExpired, at the start of a poll tick
QueueMarkExpired ==
  /\ MarkExpired(queue, now) # queue
  /\ QueueStep(MarkExpired(queue, now), held)

\* getQueuedObservations, the first statement of a replay
QueueRead ==
  \E h \in Handlers, p \in Patients :
    /\ held[h] = {}
    /\ GetQueuedObservations(queue, p) # {}
    /\ QueueStep(queue, [held EXCEPT ![h] = {x.id : x \in GetQueuedObservations(queue, p)}])

\* the replay returns early: the patient is still not found
QueueSkip ==
  \E h \in Handlers :
    /\ held[h] # {}
    /\ QueueStep(queue, [held EXCEPT ![h] = {}])

\* markFailed for an entry the replay read that fails mapping or validation
QueueMarkFailed ==
  \E h \in Handlers, i \in ObsIds :
    /\ i \in held[h] \cap obsInvalid
    /\ QueueStep(MarkFailed(queue, i), [held EXCEPT ![h] = @ \ {i}])

\* dequeue for an entry the replay read and pushed, after the invalid ones
QueueDequeue ==
  \E h \in Handlers, i \in ObsIds :
    /\ i \in held[h]
    /\ held[h] \cap obsInvalid = {}
    /\ QueueStep(Dequeue(queue, i), [held EXCEPT ![h] = @ \ {i}])

InitQueue == Init /\ patInvalid = {2} /\ faults = 0 /\ mpi = Patients /\ obsInvalid = {4}
             /\ fnCall = NoFnCall

NextQueue ==
  \/ QueueEnqueue \/ QueueMarkExpired \/ QueueRead \/ QueueSkip
  \/ QueueMarkFailed \/ QueueDequeue \/ AdvanceClock

InitSelect ==
  Init /\ obsInvalid = {} /\ patInvalid = {2} /\ faults = 0 /\ mpi = {} /\ fnCall \in SelectInputs

NextSelect == SelectCall

InitMapper == Init /\ obsInvalid = {} /\ patInvalid = {2} /\ faults = 0 /\ mpi = {} /\ fnCall = NoFnCall

NextMapper == MapperCall

\* the observation stream of a deployment whose patients are all in the MPI
InitOrder == Init /\ patInvalid = {2} /\ faults = MaxFaults /\ mpi = Patients /\ fnCall = NoFnCall

NextOrder == ObsPollFetchLarge \/ ObsPollFinish \/ SweepQueue \/ AdvanceClock

Next == NextObs \/ NextPat \/ NextRes \/ NextDb \/ NextOrder \/ NextMapper \/ NextSelect \/ NextProject \/ NextPatHang
  \/ NextPatientMap
  \/ NextGender
  \/ NextNeotreeId
  \/ NextSanitize
  \/ NextCursor
  \/ NextRace
  \/ NextQueue
  \/ NextDisk

\* the observation stream with its queue sweep
SpecObs == InitObs /\ [][NextObs]_vars

\* the patient stream
SpecPat == InitPat /\ [][NextPat]_vars

\* the patient stream against a mediator that fails only transiently, and only
\* finitely often (faults)
SpecPatTransient == InitPat /\ [][PatPollFetch \/ PatPollFinishTransient]_vars

\* the patient stream with its timer: ticks keep starting and every tick ends
SpecPatFair ==
  InitPat /\ [][NextPat]_vars /\ WF_vars(PatPollFetch) /\ WF_vars(PatPollFinish)

\* the identity resolver on its own, against every behaviour of the mediator
SpecResolver == InitRes /\ [][NextRes]_vars

\* both streams against a failing source database
SpecDb == InitDb /\ [][NextDb]_vars

\* the observation stream with every patient registered and a larger batch
SpecOrder == InitOrder /\ [][NextOrder]_vars

\* calls of ObservationMapper.map on their own
SpecMapper == InitMapper /\ [][NextMapper]_vars

\* the candidate selection of verifyPatientExists on its own
SpecSelect == InitSelect /\ [][NextSelect]_vars

\* the projection of an MPI patient for the SHR on its own
SpecProject == InitProject /\ [][NextProject]_vars

\* the patient stream whose timer keeps firing and whose handlers keep running,
\* with a mediator that can stop responding
SpecPatHang ==
  InitPat /\ [][NextPatHang]_vars /\ WF_vars(PatPollFetch) /\ WF_vars(PatPollFinish)

\* calls of PatientMapper.map on their own
SpecPatientMap == InitPatientMap /\ [][NextPatientMap]_vars

\* calls of normalizeGender on their own
SpecGender == InitGender /\ [][NextGender]_vars

\* the format check of the program-specific id on its own
SpecNeotreeId == InitNeotreeId /\ [][NextNeotreeId]_vars

\* the sanitizing of free-text fields on its own
SpecSanitize == InitSanitize /\ [][NextSanitize]_vars

\* the value a tick commits as its stream's cursor, on its own
SpecCursor == InitCursor /\ [][NextCursor]_vars

\* verifyPatientExists for one patient, called by handlers that run concurrently;
\* a call yields at each request it awaits
SpecRace == InitRace /\ [][NextRace]_vars


SpecQueue == InitQueue /\ [][NextQueue]_vars


\* the patient stream on a host whose dead-letter directory may refuse writes
SpecDisk == InitPat /\ [][NextDisk]_vars

Spec == Init /\ [][Next]_vars

(* ------------------------------- claims ------------------------------- *)
PatientOf(i) == ObsRowById(i).patient

HasEntry(q, i) == \E e \in q : e.id = i

BatchIds(run) == {run.batch[k] : k \in 1..Len(run.batch)}

PatRowById(i) == CHOOSE r \in PatRows : r.id = i

\* C1: every source row at or below its stream's committed watermark was accepted
\* by the mediator (2xx), or has a queue entry, or has a dead-letter record.
C1_NoRowSilentlyDropped ==
  /\ \A r \in ObsRows :
       (obsWm # 0 /\ r.date <= obsWm) =>
         r.id \in obsAccepted \/ HasEntry(queue, r.id) \/ r.id \in obsDlq
  /\ \A r \in PatRows :
       (patWm # 0 /\ r.date <= patWm) => r.id \in patAccepted \/ r.id \in patDlq

\* C2: at-least-once delivery under transient failures, in the form a finite run
\* refutes: once no patient tick is in progress, the rows at or below the watermark
\* are never fetched again, so every valid one of them must have been accepted.
C2_ValidRowsDelivered ==
  patTicks = <<>> =>
    \A r \in PatRows : (r.id \notin patInvalid /\ patWm # 0 /\ r.date <= patWm) => r.id \in patAccepted

\* C3: a watermark write never stores a value below the value stored just before it.
C3_WatermarkNeverDecreases == [][obsWm' >= obsWm /\ patWm' >= patWm]_vars

\* C4: an observation tick in which at least one row failed ends without writing the
\* watermark: its finish step leaves the stored watermark as it was.
C4_FailedTickKeepsWatermark ==
  [][(lastRun'.kind = "obsFinish" /\ lastRun'.failed > 0) => obsWm' = obsWm]_vars

\* C4 witness: a finished observation tick in which one row of the batch was accepted
\* and another, valid one failed transmission and was dead-lettered.
C4_Witness ==
  /\ lastRun.kind = "obsFinish"
  /\ lastRun.failed > 0
  /\ \E i, j \in BatchIds(lastRun) :
       /\ i # j
       /\ \E q \in lastPuts : q.row = i
       /\ \E q \in lastPuts : q.row = j
       /\ i \in obsAccepted
       /\ j \in obsDlq /\ j \notin obsAccepted /\ j \notin obsInvalid

\* C5: a patient tick that fetched rows ends with the watermark at the admission
\* timestamp of the last fetched row.
C5_PatientTickCommits ==
  lastRun.kind = "patFinish" =>
    patWm = PatRowById(lastRun.batch[Len(lastRun.batch)]).date

\* C6: every PUT carries the subject Patient/<id> with <id> an id the resolver
\* returned for the observation's patient in the same tick or sweep, never an empty
\* id and never the source-database patient id.
C6_SubjectIsResolvedId ==
  \A q \in lastPuts :
    /\ q.subject # <<"Patient/">>
    /\ q.subject # <<"Patient/", PatientOf(q.row)>>
    /\ \E r \in lastResolved :
         /\ r.patient = PatientOf(q.row)
         /\ r.id # Null
         /\ q.subject = <<"Patient/">> \o r.id

\* C6 witness: a sweep has replayed a queued observation of pA, whose SHR id came
\* back with the resource-type prefix.
C6_Witness ==
  /\ lastRun.kind = "sweep"
  /\ \E q \in lastPuts : PatientOf(q.row) = "pA" /\ q.subject = <<"Patient/", "shr-A">>

\* the resolver returned no id for the patient of row i in the step just taken
UnresolvedInStep(i) == ~\E r \in lastResolved' : r.patient = PatientOf(i)

\* in a poll tick, the rows of a patient the resolver did not find are all enqueued
\* and none of them is sent
EnqueuedNotSent ==
  lastRun'.kind = "obsFinish" =>
    \A i \in BatchIds(lastRun') :
      UnresolvedInStep(i) => HasEntry(queue', i) /\ ~\E q \in lastPuts' : q.row = i

C8_DequeueOnlyAfterSuccess ==
  [][\A e \in queue : ~HasEntry(queue', e.id) => e.id \in obsAccepted']_vars

\* C9 as stated: an entry of a patient that never became resolvable is pending
\* before its 24 hours are over and expired (so not selected by any sweep) after.
C9_ExpiredAtTtl ==
  \A e \in queue :
    e.patient_id \notin mpi =>
      /\ (now < e.created_at + TtlUnits => e.status = "pending")
      /\ (now > e.created_at + TtlUnits => e.status = "expired")

\* C9 amended: such an entry is pending up to 24 hours after its creation; the
\* first observation poll tick that starts later sets it to expired; an expired
\* entry stays expired; a sweep replays only pending entries and nothing is sent
\* for a patient that is not resolvable.
C9_ExpiredByNextPoll ==
  [][ /\ \A e \in queue' :
           (e.patient_id \notin mpi' /\ now' <= e.created_at + TtlUnits)
             => e.status = "pending"
      /\ lastRun'.kind = "obsFetch" =>
           \A e \in queue' :
             (e.patient_id \notin mpi' /\ now' > e.created_at + TtlUnits)
               => e.status = "expired"
      /\ \A e \in queue :
           e.status = "expired" =>
             \E e2 \in queue' : e2.id = e.id /\ e2.status = "expired"
      /\ lastRun'.kind = "sweep" =>
           \A q \in lastPuts' : \E e \in queue : e.id = q.row /\ e.status = "pending"
      /\ \A q \in lastPuts' : PatientOf(q.row) \in mpi' ]_vars

\* C9 witness: a sweep has run while the queue holds an expired entry of a
\* patient that is not resolvable.
C9_Witness ==
  /\ lastRun.kind = "sweep"
  /\ \E e \in queue :
       e.status = "expired" /\ e.patient_id \notin mpi /\ now > e.created_at + TtlUnits

C11_RejectedNotRetried ==
  \A q \in lastPosts :
    q.mode = "s4xx" => q.nreq = 1 /\ q.row \in patDlq

\* C12: at most 3 HTTP requests are made for one unit in one tick, client
\* attempts and push-loop attempts counted together.
C12_AtMostThreeRequests ==
  \A q \in lastPuts : q.nreq <= 3

\* C13: a unit whose attempts all end in a 5xx response or a transport error
\* has a dead-letter record once the retries are exhausted (patient stream).
C13_TransientFailureDeadLettered ==
  \A q \in lastPosts :
    q.mode \in {"s5xx", "neterr"} => q.row \in patDlq

\* C14: a resource that fails validation is never sent, and a dead-letter record
\* is written for it, whether the observation was polled or replayed from the
\* queue (markFailed is only called for a replayed observation that did not map
\* to a valid resource).
C14_InvalidDeadLettered ==
  /\ \A q \in lastPuts : q.row \notin obsInvalid
  /\ lastRun.kind = "obsFinish" =>
       \A i \in BatchIds(lastRun) \cap obsInvalid :
         (\E r \in lastResolved : r.patient = PatientOf(i)) => i \in obsDlq
  /\ \A e \in queue : e.status = "failed" => e.id \in obsDlq

\* C15: a row that fails permanently cannot stall its stream: with ticks firing
\* repeatedly the watermark eventually reaches the timestamp of every row that
\* fails validation (patient stream).
C15_NoPoisonPillStall ==
  <>(\A r \in PatRows : r.id \in patInvalid => patWm >= r.date)

\* C16: every source row whose timestamp is at or below the committed watermark
\* has been returned by some poll, also when rows sharing one timestamp do not
\* all fit in a batch (patient stream; the source rows all exist from the start).
C16_RowsBehindWatermarkFetched ==
  \A r \in PatRows : (patWm # 0 /\ r.date <= patWm) => r.id \in patFetched

\* what a poll may return for watermark wm and limit n
FetchContract(rows, wm, n) ==
  /\ Len(rows) <= n
  /\ \A k \in 1..Len(rows) : wm = 0 \/ rows[k].date > wm
  /\ \A j, k \in 1..Len(rows) :
       j < k => \/ rows[j].date < rows[k].date
                \/ (rows[j].date = rows[k].date /\ rows[j].id < rows[k].id)

\* watermarks a poll can be called with: absent, or the timestamp of a row
Watermarks == {0} \cup {r.date : r \in ObsRows \cup PatRows}

\* C17: both source queries return at most batch_size rows, each with a timestamp
\* strictly above the watermark (any row when it is absent), ascending by
\* (timestamp, id), so rows of equal timestamp come in ascending id order.
C17_FetchContract ==
  /\ lastRun.kind = "patFetch" =>
       FetchContract([k \in 1..Len(lastRun.batch) |-> PatRowById(lastRun.batch[k])],
                     patWm, BatchSize)
  /\ \A wm \in Watermarks : \A n \in 1..(BatchSize + 1) :
       /\ FetchContract(fetchNeonatalQuestions(wm, n), wm, n)
       /\ FetchContract(fetchNeonatalCareWithDemographics(wm, n), wm, n)

\* C17 witness: a patient poll at watermark 2 returned rows 3 and 4, cutting the
\* rows of timestamp 4 at the limit with the lower id first.
C17_Witness ==
  /\ lastRun.kind = "patFetch"
  /\ lastRun.batch = <<3, 4>>
  /\ patWm = 2

\* C18: at most one tick of a stream is in progress at any time.
C18_OneTickPerStream == Len(obsTicks) <= 1 /\ Len(patTicks) <= 1

\* C19: a call of the resolver for a patient that already has an SHR projection
\* issues no SHR create request, whatever the SHR search returned, and returns the
\* projection's id when the search succeeded.
C19_NoCreateOnceProjected ==
  resCall.existed =>
    /\ \A k \in 1..Len(resCall.outcomes) : resCall.outcomes[k][1] # "create"
    /\ (\E k \in 1..Len(resCall.outcomes) : resCall.outcomes[k] = <<"search", "ok">>)
         => /\ resCall.result = "id"
            /\ resCall.id = NormalizeId(ShrRawId(resCall.patient))

\* C20: whatever the MPI and the SHR answer, a call of the resolver returns a
\* resolved id or null.
C20_ResolverAlwaysReturns ==
  resCall.patient # "none" =>
    /\ resCall.result \in {"id", "null"}
    /\ (resCall.result = "id" => resCall.id # Null)

\* C21: processing an observation again sends it with PUT to the same resource
\* id, and the SHR then holds the same ids, each with the state it had after the
\* first run: a step never changes the resource stored under an id.
C21_ReplayIsIdempotent ==
  [][\A s \in obsStore : \E s2 \in obsStore' : s2.id = s.id /\ s2 = s]_vars

\* entry i is pending (its 24 hours have not been found over), its patient is
\* resolvable and the mediator fails no more
PendingResolvable(i) ==
  /\ faults = 0
  /\ \E e \in queue : e.id = i /\ e.status = "pending" /\ e.patient_id \in mpi

Drained(i) == ~HasEntry(queue, i) /\ i \in obsAccepted

C26_UnresolvedRowsQueued ==
  [][(lastRun'.kind = "obsFinish" /\ lastRun'.committed) =>
       \A i \in BatchIds(lastRun') : UnresolvedInStep(i) => HasEntry(queue', i)]_vars

\* C24: the watermark of a stream changes only in the step that ends a tick, and a
\* tick that writes it has, for every row of its batch, sent the row, or put it in
\* the queue, or written a dead-letter record for it; a process that stops within
\* a tick leaves the watermark as the earlier ticks committed it.
C24_WatermarkWrittenLast ==
  [][ /\ obsWm' # obsWm => (lastRun'.kind = "obsFinish" /\ lastRun'.committed)
      /\ patWm' # patWm => (lastRun'.kind = "patFinish" /\ lastRun'.committed)
      /\ (lastRun'.kind = "obsFinish" /\ lastRun'.committed) =>
           \A i \in BatchIds(lastRun') :
             \/ \E q \in lastPuts' : q.row = i
             \/ HasEntry(queue', i)
             \/ i \in obsDlq'
      /\ (lastRun'.kind = "patFinish" /\ lastRun'.committed) =>
           \A i \in BatchIds(lastRun') :
             (\E q \in lastPosts' : q.row = i) \/ i \in patDlq'
      /\ lastRun'.kind = "stopped" => (obsWm' = obsWm /\ patWm' = patWm) ]_vars

\* position of row i in the sequence of ids s (0 when absent)
PosIn(s, i) == IF \E k \in 1..Len(s) : s[k] = i
               THEN CHOOSE k \in 1..Len(s) : s[k] = i /\ \A j \in 1..(k - 1) : s[j] # i
               ELSE 0

\* C25: in a tick the rows of the batch are sent in the order the poll returned
\* them: of two rows of the batch that are both sent, the one that comes first in
\* the batch is sent first.
C25_SentInBatchOrder ==
  lastRun.kind = "obsFinish" =>
    \A j, k \in 1..Len(lastRun.batch) :
      (/\ j < k
       /\ PosIn(lastSent, lastRun.batch[j]) # 0
       /\ PosIn(lastSent, lastRun.batch[k]) # 0)
        => PosIn(lastSent, lastRun.batch[j]) < PosIn(lastSent, lastRun.batch[k])

\* C27: a call of ObservationMapper.map without a resolved patient id (absent or
\* empty) throws and returns no resource, and no resource it returns has a
\* subject built from the row's source-database patient id in place of the id
\* it was given.
C27_MapNeedsResolvedId ==
  fnCall.fn = "map" =>
    /\ (fnCall.patientResourceId = Null => fnCall.thrown)
    /\ (~fnCall.thrown =>
          fnCall.subject = <<"Patient/">> \o fnCall.patientResourceId)

\* the same for the class of part_002 alone
C27_StrictMapNeedsResolvedId ==
  (fnCall.fn = "map" /\ fnCall.class = "part_002") =>
    /\ (fnCall.patientResourceId = Null => fnCall.thrown)
    /\ (~fnCall.thrown =>
          fnCall.subject = <<"Patient/">> \o fnCall.patientResourceId)

\* the candidates of the last response
Offered == {fnCall.response[k] : k \in 1..Len(fnCall.response)}

\* the selected candidate carries a primary health id if any candidate does,
\* otherwise no candidate has more populated identifier fields
C28_PrefersPhidThenCount ==
  fnCall.fn = "select" =>
    /\ fnCall.selected \in Offered
    /\ IF \E c \in Offered : "phid" \in c.identifiers
       THEN "phid" \in fnCall.selected.identifiers
       ELSE \A c \in Offered : IdentifierCount(c) <= IdentifierCount(fnCall.selected)

\* C28: among several candidates verifyPatientExists selects one carrying a
\* primary health id if any has one, otherwise one with the greatest number of
\* populated identifier fields, and the candidate selected is the same for every
\* ordering of the same candidates in the response.
C28_SelectionIndependentOfOrder ==
  fnCall.fn = "select" =>
    /\ C28_PrefersPhidThenCount
    /\ fnCall.reordered = {fnCall.selected}

\* the members the projection keeps
KeptFields == {"identifier", "gender", "birthDate", "managingOrganization"}

C30_TicksEnd == (Len(patTicks) = MaxInFlight) ~> (Len(patTicks) < MaxInFlight)

\* the row carries a primary health id and a program-specific id
HasBothIds(row) ==
  /\ Trim(row.phid) # <<>>
  /\ Trim(row.impilo_neotree_id) # <<>>
  /\ Trim(row.neotree_id) # <<>>

\* the first identifier is the primary health id and the program-specific id
\* comes after it
PhidFirst(ids) ==
  /\ Len(ids) >= 2
  /\ ids[1].system = "urn:impilo:phid"
  /\ \E k \in 2..Len(ids) : ids[k].system = "urn:neotree:impilo-id"

\* C31: for a source row that has both a primary health id and a
\* program-specific id, the first identifier of the mapped patient resource is
\* the primary health id and the program-specific id comes after it.
C31_PhidIsFirstIdentifier ==
  (fnCall.fn = "patientMap" /\ HasBothIds(fnCall.row)) => PhidFirst(fnCall.identifier)

\* the same for the class of part_001 alone
C31_PhidIsFirstInPart001 ==
  (fnCall.fn = "patientMap" /\ fnCall.class = "part_001" /\ HasBothIds(fnCall.row))
    => /\ PhidFirst(fnCall.identifier)
       /\ fnCall.identifier[1].value = Trim(fnCall.row.phid)
       /\ fnCall.identifier[2].value = Trim(fnCall.row.impilo_neotree_id)

\* the gender the normalization is to give: by the value without regard to
\* letter case
ExpectedGender(sex) ==
  LET s == ToLowerCase(sex)
  IN  IF s = <<"m">> \/ s = <<"m", "a", "l", "e">> THEN <<"male">>
      ELSE IF s = <<"f">> \/ s = <<"f", "e", "m", "a", "l", "e">> THEN <<"female">>
      ELSE IF s = <<"o", "t", "h", "e", "r">> THEN <<"other">>
      ELSE <<"unknown">>

\* C32: normalizeGender maps m and male in any letter case to male, f and
\* female in any letter case to female, other to other, and every other input,
\* an absent value included, to unknown.
C32_GenderNormalized ==
  fnCall.fn = "gender" => fnCall.gender = ExpectedGender(fnCall.sex)

\* m, male, f and female in any letter case give male and female, in both
\* functions
C32_MaleFemaleNormalized ==
  (fnCall.fn = "gender" /\ ExpectedGender(fnCall.sex) \in {<<"male">>, <<"female">>})
    => fnCall.gender = ExpectedGender(fnCall.sex)

\* normalizeGender of part_001 departs only on an absent value, on o, and on
\* values with whitespace around them
C32_Part001Departures ==
  (fnCall.fn = "gender" /\ fnCall.class = "part_001"
     /\ fnCall.sex # <<>> /\ Trim(fnCall.sex) = fnCall.sex
     /\ ToLowerCase(fnCall.sex) # <<"o">>)
    => fnCall.gender = ExpectedGender(fnCall.sex)

\* the number a string of digits denotes
RECURSIVE NumberOf(_)
NumberOf(ds) == IF ds = <<>> THEN 0 ELSE 10 * NumberOf(SubSeq(ds, 1, Len(ds) - 1)) + DigitValue(ds[Len(ds)])

\* three two-hex-digit groups, a four-digit year between 1900 and 2100, one
\* letter and a five-digit sequence, joined by hyphens
WellFormedNeotreeId(id) ==
  /\ Len(id) = 21
  /\ \A k \in {3, 6, 9, 14, 16} : id[k] = "-"
  /\ \A k \in {1, 2, 4, 5, 7, 8} : id[k] \in HexChars
  /\ \A k \in 10..13 : id[k] \in DigitChars
  /\ NumberOf(SubSeq(id, 10, 13)) \in 1900..2100
  /\ id[15] \in LetterChars
  /\ \A k \in 17..21 : id[k] \in DigitChars

\* the program-specific ids of a resource
NeotreeIdsOf(identifier) ==
  {identifier[k].value : k \in {j \in 1..Len(identifier) : identifier[j].system = "urn:neotree:impilo-id"}}

\* C33: the patient validator accepts a program-specific id exactly when it
\* consists of three two-hex-digit groups, a four-digit year between 1900 and
\* 2100, one letter and a five-digit sequence, joined by hyphens, both in
\* isValidNeotreeId and in validate on the mapped and sanitized resource;
\* 00-0A-34-2025-N-01031 is accepted and 00-0A-34-3025-N-01031 is rejected.
C33_NeotreeIdFormat ==
  fnCall.fn = "neotreeId" =>
    /\ fnCall.test = WellFormedNeotreeId(fnCall.column)
    /\ (fnCall.errors = {}) = (\A v \in NeotreeIdsOf(fnCall.identifier) : WellFormedNeotreeId(v))
    /\ (fnCall.column = ExampleNeotreeId => fnCall.test /\ fnCall.errors = {})
    /\ (fnCall.column = [ExampleNeotreeId EXCEPT ![10] = "3"] => ~fnCall.test /\ fnCall.errors # {})

\* the example id was accepted
C33_Witness ==
  /\ fnCall.fn = "neotreeId"
  /\ fnCall.column = ExampleNeotreeId
  /\ fnCall.test
  /\ fnCall.errors = {}
  /\ NeotreeIdsOf(fnCall.identifier) = {ExampleNeotreeId}

\* the id with the year 3025 was rejected
C33_RejectedWitness ==
  /\ fnCall.fn = "neotreeId"
  /\ fnCall.column = [ExampleNeotreeId EXCEPT ![10] = "3"]
  /\ ~fnCall.test
  /\ fnCall.errors = {"Invalid NEOTREE-IMPILO-ID format"}

\* no control character, no whitespace at either end, no run of whitespace
CleanText(s) ==
  /\ \A k \in 1..Len(s) : s[k] \notin ControlChars
  /\ s # <<>> => Head(s) \notin WhitespaceChars /\ s[Len(s)] \notin WhitespaceChars
  /\ \A k \in 1..(Len(s) - 1) : ~(s[k] \in WhitespaceChars /\ s[k + 1] \in WhitespaceChars)

\* C34: after sanitize every free-text field of the resource contains no
\* control character, has no leading or trailing whitespace and has no run of
\* more than one whitespace character.
C34_FreeTextClean ==
  fnCall.fn = "sanitize" =>
    /\ CleanText(fnCall.family)
    /\ CleanText(fnCall.given)
    /\ CleanText(fnCall.valueString)
    /\ CleanText(fnCall.display)

\* the fields that go through sanitizeString never keep a control character
\* or a run of whitespace
C34_NoControlNoRuns ==
  fnCall.fn = "sanitize" =>
    \A s \in {fnCall.family, fnCall.given, fnCall.valueString} :
      /\ \A k \in 1..Len(s) : s[k] \notin ControlChars
      /\ \A k \in 1..(Len(s) - 1) : ~(s[k] \in WhitespaceChars /\ s[k + 1] \in WhitespaceChars)

\* a text without NUL comes out of sanitizeString clean
C34_CleanWithoutNul ==
  (fnCall.fn = "sanitize" /\ \A k \in 1..Len(fnCall.text) : fnCall.text[k] # "NUL")
    => CleanText(fnCall.given)

\* v is a timestamp string
IsTimestamp(v) == Len(v) = 2 /\ v[1] = "ts"

\* v is the ordering timestamp of the last row and no row of the batch has a
\* greater one
LastAndGreatest(v, rows) ==
  /\ v = rows[Len(rows)].date
  /\ \A k \in 1..Len(rows) : rows[k].date # NoDate => rows[k].date[2] <= v[2]

\* C35: every value committed as a stream's cursor is a timestamp string equal
\* to the ordering timestamp of the last row of the batch just processed, which
\* is the greatest ordering timestamp in that batch.
C35_CursorIsLastTimestamp ==
  (fnCall.fn = "cursor" /\ fnCall.written # NoWrite) =>
    /\ IsTimestamp(fnCall.written)
    /\ LastAndGreatest(fnCall.written, fnCall.rows)

\* the same for the batches whose last row has an ordering timestamp
C35_CursorOfDatedBatch ==
  (fnCall.fn = "cursor" /\ fnCall.written # NoWrite
     /\ fnCall.rows[Len(fnCall.rows)].date # NoDate) =>
    /\ IsTimestamp(fnCall.written)
    /\ LastAndGreatest(fnCall.written, fnCall.rows)

\* C36: when verifyPatientExists calls for the same patient run concurrently, at
\* most one of them creates an SHR projection: the SHR never holds two
\* projections of one MPI patient.
C36_OneProjection ==
  /\ race.projections <= 1
  /\ Cardinality(race.created) <= 1

\* a call that searches the SHR after a projection was created creates none
C36_LateCallCreatesNothing ==
  [][\A c \in Callers :
       (race.pos[c] = "found" /\ race.projections > 0 /\ race'.pos[c] # "found")
         => race'.pos[c] = "returned" /\ race'.projections = race.projections]_vars

(* ---------------------------------------------------------------------- *)
StatusOf(q, i) == IF HasEntry(q, i) THEN (CHOOSE x \in q : x.id = i).status ELSE "absent"

\* C37: a queue entry's status only changes from pending to failed or from
\* pending to expired; a failed or expired entry never becomes pending again,
\* also when its observation id is enqueued again, and nothing sets processing
C37_StatusTransitions ==
  [][\A i \in ObsIds :
       /\ StatusOf(queue', i) # "processing"
       /\ (HasEntry(queue, i) /\ HasEntry(queue', i)
             /\ StatusOf(queue', i) # StatusOf(queue, i))
           => /\ StatusOf(queue, i) = "pending"
              /\ StatusOf(queue', i) \in {"failed", "expired"}]_vars

\* what holds of every statement: an entry that left pending stays out of
\* pending while it exists, and no entry is ever processing
C37_NeverBackToPending ==
  [][\A i \in ObsIds :
       /\ StatusOf(queue', i) # "processing"
       /\ (StatusOf(queue, i) \in {"failed", "expired"} /\ HasEntry(queue', i))
           => StatusOf(queue', i) \in {"failed", "expired"}]_vars

\* a failed or expired entry has been enqueued again and kept its status
C37_ReenqueuedWitness ==
  \E x \in queue : x.status \in {"failed", "expired"} /\ x.retry_count > 0

(* ---------------------------------------------------------------------- *)
\* observation i got a 2xx among the PUTs puts
TransmittedIn(puts, i) == \E x \in puts : x.row = i /\ ObsPushOutcome[x.mode].pushed

\* observation i is in the queue q and its patient is not among resolved
QueuedIn(q, resolved, i) ==
  /\ HasEntry(q, i)
  /\ ~\E x \in resolved : x.patient = ObsRowById(i).patient

SentFor(sent, p) == SelectSeq(sent, LAMBDA i : ObsRowById(i).patient = p)

\* ids of the batch that belong to patient p
BatchIdsOf(batch, p) == {batch[k] : k \in {j \in 1..Len(batch) : ObsRowById(batch[j]).patient = p}}

\* the sends for p are n replayed entries (all of replayable, or none when the
\* replay failed) followed by every valid row of the batch
ReplayThenNew(s, n, replayable, fresh, replayFailed) ==
  /\ \A j \in 1..n : s[j] \in replayable
  /\ {s[j] : j \in 1..n} = replayable \/ (n = 0 /\ replayFailed)
  /\ {s[j] : j \in (n + 1)..Len(s)} = fresh
  /\ Len(s) - n = Cardinality(fresh)

C39_FailedReplayWitness ==
  /\ lastRun.kind = "obsFinish"
  /\ \E a, b \in lastPuts :
       /\ a.patient = b.patient
       /\ a.row \notin BatchIdsOf(lastRun.batch, a.patient)
       /\ ~ObsPushOutcome[a.mode].pushed
       /\ b.row \in BatchIdsOf(lastRun.batch, b.patient)
       /\ ObsPushOutcome[b.mode].pushed

(* ---------------------------------------------------------------------- *)
\* rows of a patient batch the tick handed to writeDlq: those that failed
\* validation and those whose push threw
DivertedPatients(batch, posts, invalid) ==
  {batch[k] : k \in {j \in 1..Len(batch) : batch[j] \in invalid}}
    \cup {x.row : x \in {y \in posts : y.thrown}}

\* C40: a row a tick diverts to the dead-letter sink is passed by the watermark
\* the tick commits only if the row has a dead-letter record
C40_PassedOnlyIfRecorded ==
  [][(lastRun'.kind = "patFinish" /\ lastRun'.committed) =>
       \A i \in DivertedPatients(lastRun'.batch, lastPosts', patInvalid) :
         PatRowById(i).date <= patWm' => i \in patDlq']_vars

\* the same, of the ticks in which the directory accepts its files
C40_RecordedWhenWritten ==
  [][(lastRun'.kind = "patFinish" /\ lastRun'.committed /\ patDlq' # patDlq) =>
       \A i \in DivertedPatients(lastRun'.batch, lastPosts', patInvalid) :
         PatRowById(i).date <= patWm' => i \in patDlq']_vars

====
